---------------------------- MODULE Spec2Model ----------------------------
(***************************************************************************)
(* The EMV merchant-presented QR codec of emvqr: the TLV codec (tlv.go),   *)
(* the CRC-16 (crc16CCITT), the encoder (encode.go) and the decoder        *)
(* (decode.go).                                                            *)
(*                                                                         *)
(* A Go string is modelled as the sequence of its bytes (integers 0..255), *)
(* so Len is Go's len: the byte length.  A Go slice is a sequence, a nil   *)
(* pointer is Nil (the empty sequence) and a non-nil pointer the sequence  *)
(* of length one holding the pointed-to record.  A call's outcome is a     *)
(* record whose field kind is "ok", "error" or "panic" (a Go run-time      *)
(* panic: slice bounds out of range, or panic(err) in mustEncodeTLV).      *)
(***************************************************************************)
EXTENDS Integers, Sequences, FiniteSets, TLC

VARIABLES
    input,      \* SpecTLV: the string handed to parseTLV / DecodeWithOptions
    objsIn,     \* SpecTLV: the (id, value) pairs encodeTLV wrote into input
    wellFormed, \* SpecTLV: input is exactly the concatenation of objsIn's units
    tlvEnc,     \* SpecTLV: the last encodeTLV call and its outcome
    parsed,     \* SpecTLV: outcome of parseTLV(input)
    decoded,    \* SpecTLV: outcome of DecodeWithOptions(input, opts)
    p0,         \* Spec: the caller's *Payload (Nil or <<payload>>)
    steps,      \* Spec: the number of caller steps taken (assignments, tampering)
    enc1,       \* Spec: the EncodeWithOptions(p0, opts) call and its outcome
    wire,       \* Spec: the string handed to DecodeWithOptions
    wireKind,   \* Spec: where wire comes from: "none", "encoded", "tampered", "foreign",
                \* "nocrc", "trailing"
    dec1,       \* Spec: the DecodeWithOptions(raw, opts) call and its outcome
    enc2,       \* Spec: the outcome of Encode on the decoded Payload
    dec2,       \* Spec: the outcome of Decode on that second string
    bp,         \* SpecBuild: the Payload the builder calls work on
    origin,     \* SpecBuild: where bp started: "new" (NewPayload) or "decoded"
    calls,      \* SpecBuild: the number of builder calls and assignments made
    last,       \* SpecBuild: the last builder call, bp before it and its outcome
    asked       \* SpecBuild: the last query on bp and its result

tlvVars == <<input, objsIn, wellFormed, tlvEnc, parsed, decoded>>

lifeVars == <<p0, steps, enc1, wire, wireKind, dec1, enc2, dec2>>

buildVars == <<bp, origin, calls, last, asked>>

vars == <<input, objsIn, wellFormed, tlvEnc, parsed, decoded,
          p0, steps, enc1, wire, wireKind, dec1, enc2, dec2,
          bp, origin, calls, last, asked>>

-----------------------------------------------------------------------------
(* Bytes and strings *)

Nil == <<>>

NotRun == [kind |-> "none"]

IsDigit(c) == c >= 48 /\ c <= 57

\* The two ASCII decimal digits of n in 0..99 ("%02d" for such n).
Digits2(n) == <<48 + (n \div 10), 48 + (n % 10)>>

\* fmt.Sprintf("%d", n) for n >= 0.
RECURSIVE Itoa(_)
Itoa(n) == IF n < 10 THEN <<48 + n>> ELSE Itoa(n \div 10) \o <<48 + (n % 10)>>

\* fmt.Sprintf("%02d", n) for n >= 0: zero-padded to at least two digits.
Fmt02d(n) == IF n < 10 THEN <<48, 48 + n>> ELSE Itoa(n)

\* The number of UTF-8 encoded characters of a string: every byte that is not
\* a continuation byte (10xxxxxx) starts one.
RuneCount(s) == Cardinality({i \in 1..Len(s) : s[i] < 128 \/ s[i] >= 192})

RECURSIVE DigitsValue(_, _)
DigitsValue(s, acc) ==
    IF acc < 0 \/ s = <<>> THEN acc
    ELSE DigitsValue(Tail(s), 10 * acc + (Head(s) - 48))

\* strconv.Atoi: an optional sign, then one or more decimal digits.
Atoi(s) ==
    LET body == IF s # <<>> /\ (s[1] = 43 \/ s[1] = 45) THEN Tail(s) ELSE s
        neg  == s # <<>> /\ s[1] = 45
    IN  IF body = <<>> \/ \E i \in 1..Len(body) : ~IsDigit(body[i])
        THEN [ok |-> FALSE, n |-> 0]
        ELSE [ok |-> TRUE,
              n  |-> IF neg THEN 0 - DigitsValue(body, 0) ELSE DigitsValue(body, 0)]

\* Go's s[lo:hi] on a string of length Len(s); the caller checks the bounds.
Slice(s, lo, hi) == SubSeq(s, lo + 1, hi)

\* s[lo:hi] panics unless 0 <= lo <= hi <= len(s).
SliceOK(s, lo, hi) == 0 <= lo /\ lo <= hi /\ hi <= Len(s)

RECURSIVE Concat(_)
Concat(ss) == IF ss = <<>> THEN <<>> ELSE Head(ss) \o Concat(Tail(ss))

-----------------------------------------------------------------------------
(* tlv.go *)

MaxValueLen == 99

\* A call's outcome: the value returned (val; the zero value with an error),
\* the sentinel errors.Is finds (err), the field a ParseError names (id) and
\* the text an error message names (name).
Ok(v) == [kind |-> "ok", val |-> v, err |-> "", id |-> <<>>, name |-> ""]

Err(e) == [kind |-> "error", val |-> <<>>, err |-> e, id |-> <<>>, name |-> ""]

ErrNamed(e, n) == [kind |-> "error", val |-> <<>>, err |-> e, id |-> <<>>, name |-> n]

Panic == [kind |-> "panic", val |-> <<>>, err |-> "", id |-> <<>>, name |-> ""]

\* &ParseError{ID: id, Err: r}: errors.Is still finds the wrapped error.
ParseError(id, r) == [r EXCEPT !.id = id]

RECURSIVE parseFrom(_, _)
parseFrom(s, objects) ==
    IF Len(objects) < 0 \/ Len(s) = 0 THEN Ok(objects)
    ELSE IF Len(s) < 4 THEN ErrNamed("ErrInvalidTLV", "expected at least 4 chars")
    ELSE LET id     == Slice(s, 0, 2)
             lenStr == Slice(s, 2, 4)
             length == Atoi(lenStr)
         IN  IF ~length.ok THEN ErrNamed("ErrInvalidTLV", "non-numeric length")
             ELSE IF Len(s) < 4 + length.n
             THEN ErrNamed("ErrInvalidTLV", "declared length exceeds remaining data")
             ELSE IF ~SliceOK(s, 4, 4 + length.n) THEN Panic
             ELSE parseFrom(Slice(s, 4 + length.n, Len(s)),
                            Append(objects, [id |-> id, value |-> Slice(s, 4, 4 + length.n)]))

\* parseTLV dropping the objects with an empty value.
parseTLVSkipEmpty(s) ==
    LET r == parseFrom(s, <<>>)
    IN  IF r.kind # "ok" THEN r ELSE Ok(SelectSeq(r.val, LAMBDA o : o.value # <<>>))

parseTLV(s) == parseFrom(s, <<>>)

\* encodeTLV measuring the value in characters instead of bytes.
encodeTLVRuneLen(id, value) ==
    IF RuneCount(value) > MaxValueLen THEN Err("valueTooLong")
    ELSE Ok(id \o Fmt02d(RuneCount(value)) \o value)

encodeTLV(id, value) ==
    IF Len(value) > MaxValueLen THEN Err("valueTooLong")
    ELSE Ok(id \o Fmt02d(Len(value)) \o value)

mustEncodeTLV(id, value) ==
    LET r == encodeTLV(id, value)
    IN  IF r.kind # "ok" THEN Panic ELSE r

-----------------------------------------------------------------------------
(* crc16CCITT and crcString *)

\* Bitwise exclusive or of two 4-bit values.
NibXor ==
    [a \in 0..15, b \in 0..15 |->
        LET bit(v, k) == (v \div (2^k)) % 2
        IN  ((bit(a, 0) + bit(b, 0)) % 2) + 2 * ((bit(a, 1) + bit(b, 1)) % 2)
            + 4 * ((bit(a, 2) + bit(b, 2)) % 2) + 8 * ((bit(a, 3) + bit(b, 3)) % 2)]

\* Bitwise exclusive or of two uint16 values.
Xor16(a, b) ==
    NibXor[a % 16, b % 16] + 16 * NibXor[(a \div 16) % 16, (b \div 16) % 16]
    + 256 * NibXor[(a \div 256) % 16, (b \div 256) % 16]
    + 4096 * NibXor[(a \div 4096) % 16, (b \div 4096) % 16]

\* The inner loop: eight times, shift left and xor the polynomial 0x1021 in
\* when the top bit was set; the register is a uint16.
RECURSIVE crcBits(_, _)
crcBits(crc, i) ==
    IF i = 8 THEN crc
    ELSE IF crc >= 32768 THEN crcBits(Xor16((crc * 2) % 65536, 4129), i + 1)
         ELSE crcBits((crc * 2) % 65536, i + 1)

\* The outer loop over data[lo..hi], in byte order; the range is split in
\* halves to keep the evaluation shallow.
RECURSIVE crcFrom(_, _, _, _)
crcFrom(crc, data, lo, hi) ==
    IF crc < 0 \/ lo > hi THEN crc
    ELSE IF lo = hi THEN crcBits(Xor16(crc, (data[lo] * 256) % 65536), 0)
    ELSE LET mid == (lo + hi) \div 2
         IN  crcFrom(crcFrom(crc, data, lo, mid), data, mid + 1, hi)

\* crc16CCITT with the register starting at 0.
crc16CCITTZeroInit(data) == crcFrom(0, data, 1, Len(data))

crc16CCITT(data) == crcFrom(65535, data, 1, Len(data))

HexDigit(d) == IF d < 10 THEN 48 + d ELSE 55 + d

\* fmt.Sprintf("%04X", v) for a uint16.
crcString(v) ==
    <<HexDigit(v \div 4096), HexDigit((v \div 256) % 16),
      HexDigit((v \div 16) % 16), HexDigit(v % 16)>>

-----------------------------------------------------------------------------
(* emvqr.go: field IDs and data structures *)

IDPayloadFormatIndicator == Digits2(0)
IDMerchantCategoryCode == Digits2(52)
IDTransactionCurrency == Digits2(53)
IDTransactionAmount == Digits2(54)
IDTipOrConvenienceIndicator == Digits2(55)
IDValueConvenienceFeeFixed == Digits2(56)
IDValueConvenienceFeePercent == Digits2(57)
IDCountryCode == Digits2(58)
IDMerchantName == Digits2(59)
IDMerchantCity == Digits2(60)
IDPostalCode == Digits2(61)
IDAdditionalDataFieldTemplate == Digits2(62)
IDCRC == Digits2(63)
IDMerchantInfoLanguageTemplate == Digits2(64)

TipIndicatorPromptConsumer == Digits2(1)
TipIndicatorFixedConvenienceFee == Digits2(2)
TipIndicatorPercentageFee == Digits2(3)

\* The Additional Data Field's named sub-fields, in sub-ID order 01..09.
ADFNames ==
    <<"BillNumber", "MobileNumber", "StoreLabel", "LoyaltyNumber", "ReferenceLabel",
      "CustomerLabel", "TerminalLabel", "PurposeOfTransaction",
      "AdditionalConsumerDataRequest">>

LangPreference == Digits2(0)
LangMerchantName == Digits2(1)
LangMerchantCity == Digits2(2)

MAIGloballyUniqueID == Digits2(0)

\* The header of the CRC field: ID "63" and length "04".
CRCHeader == IDCRC \o Digits2(4)

DataObject(id, value) == [ID |-> id, Value |-> value]

MerchantAccountInfo(id, value, subFields) ==
    [ID |-> id, Value |-> value, SubFields |-> subFields]

\* &AdditionalDataField{}
EmptyADF ==
    [BillNumber |-> <<>>, MobileNumber |-> <<>>, StoreLabel |-> <<>>,
     LoyaltyNumber |-> <<>>, ReferenceLabel |-> <<>>, CustomerLabel |-> <<>>,
     TerminalLabel |-> <<>>, PurposeOfTransaction |-> <<>>,
     AdditionalConsumerDataRequest |-> <<>>, RFUFields |-> <<>>]

\* &LanguageTemplate{}
EmptyLT ==
    [LanguagePreference |-> <<>>, MerchantName |-> <<>>, MerchantCity |-> <<>>,
     RFUFields |-> <<>>]

\* Payload{}
EmptyPayload ==
    [PayloadFormatIndicator |-> <<>>, MerchantAccountInfos |-> <<>>,
     MerchantCategoryCode |-> <<>>, TransactionCurrency |-> <<>>,
     TransactionAmount |-> <<>>, TipOrConvenienceIndicator |-> <<>>,
     ValueConvenienceFeeFixed |-> <<>>, ValueConvenienceFeePercent |-> <<>>,
     CountryCode |-> <<>>, MerchantName |-> <<>>, MerchantCity |-> <<>>,
     PostalCode |-> <<>>, AdditionalData |-> Nil, LanguageTemplate |-> Nil,
     UnreservedTemplates |-> <<>>, CRC |-> <<>>, RFUFields |-> <<>>]

IsTemplate(m) ==
    LET a == Atoi(m.ID) IN a.ok /\ a.n >= 26 /\ a.n <= 51

-----------------------------------------------------------------------------
(* decode.go *)

\* strings.ToUpper on ASCII letters.
ToUpper(s) == [i \in 1..Len(s) |-> IF s[i] >= 97 /\ s[i] <= 122 THEN s[i] - 32 ELSE s[i]]

\* strings.EqualFold against t, a string of ASCII hex digits: equal up to the
\* case of ASCII letters.
EqualFold(s, t) == Len(s) = Len(t) /\ ToUpper(s) = ToUpper(t)

\* strings.LastIndex: the last i with s[i:i+len(sub)] = sub, or -1.
LastIndex(s, sub) ==
    LET hits == {i \in 0..(Len(s) - Len(sub)) : Slice(s, i, i + Len(sub)) = sub}
    IN  IF hits = {} THEN 0 - 1 ELSE CHOOSE i \in hits : \A j \in hits : j <= i

isMerchantAccountInfo(id) ==
    LET a == Atoi(id) IN a.ok /\ a.n >= 2 /\ a.n <= 51

isUnreservedTemplate(id) ==
    LET a == Atoi(id) IN a.ok /\ a.n >= 80 /\ a.n <= 99

validateCRCExact(raw) ==
    IF Len(raw) < 8 THEN ErrNamed("ErrInvalidTLV", "payload too short to contain CRC")
    ELSE LET crcFieldStart == LastIndex(raw, CRCHeader)
         IN  IF crcFieldStart = 0 - 1
             THEN ErrNamed("ErrInvalidTLV", "CRC field (ID 63) not found")
             ELSE IF ~SliceOK(raw, crcFieldStart + 4, crcFieldStart + 8) THEN Panic
             ELSE LET dataPart == Slice(raw, 0, crcFieldStart + 4)
                      crcValue == Slice(raw, crcFieldStart + 4, crcFieldStart + 8)
                      expected == crcString(crc16CCITT(dataPart))
                  IN  IF crcValue # expected THEN Err("ErrCRCMismatch") ELSE Ok(<<>>)

validateCRC(raw) ==
    IF Len(raw) < 8 THEN ErrNamed("ErrInvalidTLV", "payload too short to contain CRC")
    ELSE LET crcFieldStart == LastIndex(raw, CRCHeader)
         IN  IF crcFieldStart = 0 - 1
             THEN ErrNamed("ErrInvalidTLV", "CRC field (ID 63) not found")
             ELSE IF ~SliceOK(raw, crcFieldStart + 4, crcFieldStart + 8) THEN Panic
             ELSE LET dataPart == Slice(raw, 0, crcFieldStart + 4)
                      crcValue == Slice(raw, crcFieldStart + 4, crcFieldStart + 8)
                      expected == crcString(crc16CCITT(dataPart))
                  IN  IF ~EqualFold(crcValue, expected) THEN Err("ErrCRCMismatch")
                      ELSE Ok(<<>>)

\* []tlvObject -> []DataObject, as the decoders' append loops do.
AsDataObjects(subs) == [i \in 1..Len(subs) |-> DataObject(subs[i].id, subs[i].value)]

\* decodeMerchantAccountInfo keeping the raw value of a template entry.
decodeMerchantAccountInfoKeepValue(id, val) ==
    LET n == Atoi(id).n
    IN  IF n >= 26 /\ n <= 51
        THEN LET subs == parseTLV(val)
             IN  IF subs.kind = "panic" THEN Panic
                 ELSE IF subs.kind = "error" THEN ParseError(id, subs)
                 ELSE Ok(MerchantAccountInfo(id, val, AsDataObjects(subs.val)))
        ELSE Ok(MerchantAccountInfo(id, val, <<>>))

decodeMerchantAccountInfo(id, val) ==
    LET n == Atoi(id).n
    IN  IF n >= 26 /\ n <= 51
        THEN LET subs == parseTLV(val)
             IN  IF subs.kind = "panic" THEN Panic
                 ELSE IF subs.kind = "error" THEN ParseError(id, subs)
                 ELSE Ok(MerchantAccountInfo(id, <<>>, AsDataObjects(subs.val)))
        ELSE Ok(MerchantAccountInfo(id, val, <<>>))

RECURSIVE adfApply(_, _)
adfApply(adf, subs) ==
    IF subs = <<>> THEN adf
    ELSE LET s == Head(subs)
             named == {n \in 1..9 : s.id = Digits2(n)}
         IN  adfApply(IF named # {}
                      THEN [adf EXCEPT ![ADFNames[CHOOSE n \in named : TRUE]] = s.value]
                      ELSE [adf EXCEPT !.RFUFields = Append(@, DataObject(s.id, s.value))],
                      Tail(subs))

decodeAdditionalDataField(val) ==
    LET subs == parseTLV(val)
    IN  IF subs.kind # "ok" THEN subs ELSE Ok(<<adfApply(EmptyADF, subs.val)>>)

RECURSIVE ltApply(_, _)
ltApply(lt, subs) ==
    IF subs = <<>> THEN lt
    ELSE LET s == Head(subs)
         IN  ltApply(IF s.id = LangPreference THEN [lt EXCEPT !.LanguagePreference = s.value]
                     ELSE IF s.id = LangMerchantName THEN [lt EXCEPT !.MerchantName = s.value]
                     ELSE IF s.id = LangMerchantCity THEN [lt EXCEPT !.MerchantCity = s.value]
                     ELSE [lt EXCEPT !.RFUFields = Append(@, DataObject(s.id, s.value))],
                     Tail(subs))

decodeLanguageTemplate(val) ==
    LET subs == parseTLV(val)
    IN  IF subs.kind # "ok" THEN subs ELSE Ok(<<ltApply(EmptyLT, subs.val)>>)

RECURSIVE utApply(_, _)
utApply(ut, subs) ==
    IF subs = <<>> THEN ut
    ELSE LET s == Head(subs)
         IN  utApply(IF s.id = MAIGloballyUniqueID THEN [ut EXCEPT !.GloballyUniqueID = s.value]
                     ELSE [ut EXCEPT !.SubFields = Append(@, DataObject(s.id, s.value))],
                     Tail(subs))

decodeUnreservedTemplate(id, val) ==
    LET subs == parseTLV(val)
    IN  IF subs.kind = "panic" THEN Panic
        ELSE IF subs.kind = "error" THEN ParseError(id, subs)
        ELSE Ok(utApply([ID |-> id, GloballyUniqueID |-> <<>>, SubFields |-> <<>>], subs.val))

\* (p *Payload).applyObject: the outcome holds the updated Payload.
applyObject(p, obj) ==
    LET id  == obj.id
        val == obj.value
    IN  IF id = IDPayloadFormatIndicator THEN Ok([p EXCEPT !.PayloadFormatIndicator = val])
        ELSE IF isMerchantAccountInfo(id)
        THEN LET mai == decodeMerchantAccountInfo(id, val)
             IN  IF mai.kind # "ok" THEN mai
                 ELSE Ok([p EXCEPT !.MerchantAccountInfos = Append(@, mai.val)])
        ELSE IF id = IDMerchantCategoryCode THEN Ok([p EXCEPT !.MerchantCategoryCode = val])
        ELSE IF id = IDTransactionCurrency THEN Ok([p EXCEPT !.TransactionCurrency = val])
        ELSE IF id = IDTransactionAmount THEN Ok([p EXCEPT !.TransactionAmount = val])
        ELSE IF id = IDTipOrConvenienceIndicator
        THEN Ok([p EXCEPT !.TipOrConvenienceIndicator = val])
        ELSE IF id = IDValueConvenienceFeeFixed
        THEN Ok([p EXCEPT !.ValueConvenienceFeeFixed = val])
        ELSE IF id = IDValueConvenienceFeePercent
        THEN Ok([p EXCEPT !.ValueConvenienceFeePercent = val])
        ELSE IF id = IDCountryCode THEN Ok([p EXCEPT !.CountryCode = val])
        ELSE IF id = IDMerchantName THEN Ok([p EXCEPT !.MerchantName = val])
        ELSE IF id = IDMerchantCity THEN Ok([p EXCEPT !.MerchantCity = val])
        ELSE IF id = IDPostalCode THEN Ok([p EXCEPT !.PostalCode = val])
        ELSE IF id = IDAdditionalDataFieldTemplate
        THEN LET adf == decodeAdditionalDataField(val)
             IN  IF adf.kind = "panic" THEN Panic
                 ELSE IF adf.kind = "error" THEN ParseError(id, adf)
                 ELSE Ok([p EXCEPT !.AdditionalData = adf.val])
        ELSE IF id = IDCRC THEN Ok([p EXCEPT !.CRC = ToUpper(val)])
        ELSE IF id = IDMerchantInfoLanguageTemplate
        THEN LET lt == decodeLanguageTemplate(val)
             IN  IF lt.kind = "panic" THEN Panic
                 ELSE IF lt.kind = "error" THEN ParseError(id, lt)
                 ELSE Ok([p EXCEPT !.LanguageTemplate = lt.val])
        ELSE IF isUnreservedTemplate(id)
        THEN LET ut == decodeUnreservedTemplate(id, val)
             IN  IF ut.kind # "ok" THEN ut
                 ELSE Ok([p EXCEPT !.UnreservedTemplates = Append(@, ut.val)])
        ELSE Ok([p EXCEPT !.RFUFields = Append(@, DataObject(id, val))])

\* The loop of DecodeWithOptions over the parsed objects: the first failing
\* applyObject ends it and no Payload is returned.
RECURSIVE applyAll(_, _)
applyAll(p, objects) ==
    IF objects = <<>> THEN Ok(<<p>>)
    ELSE LET r == applyObject(p, Head(objects))
         IN  IF r.kind # "ok" THEN [r EXCEPT !.val = Nil] ELSE applyAll(r.val, Tail(objects))

\* DecodeWithOptions parsing before it verifies the CRC.
DecodeWithOptionsParseFirst(raw, SkipCRCValidation) ==
    IF Len(raw) < 4 THEN Err("ErrInvalidLength")
    ELSE LET objects == parseTLV(raw)
         IN  IF objects.kind # "ok" THEN objects
             ELSE LET crc == IF SkipCRCValidation THEN Ok(<<>>) ELSE validateCRC(raw)
                  IN  IF crc.kind # "ok" THEN crc
                      ELSE applyAll(EmptyPayload, objects.val)

DecodeWithOptions(raw, SkipCRCValidation) ==
    IF Len(raw) < 4 THEN Err("ErrInvalidLength")
    ELSE LET crc == IF SkipCRCValidation THEN Ok(<<>>) ELSE validateCRC(raw)
         IN  IF crc.kind # "ok" THEN crc
             ELSE LET objects == parseTLV(raw)
                  IN  IF objects.kind # "ok" THEN objects
                      ELSE applyAll(EmptyPayload, objects.val)

Decode(raw) == DecodeWithOptions(raw, FALSE)

-----------------------------------------------------------------------------
(* encode.go *)

\* write: mustEncodeTLV into the builder; a value over 99 bytes panics.
write(id, value) == mustEncodeTLV(id, value)

\* The outcome of a run of writes in order: the first one that is not "ok"
\* ends the run with its outcome, otherwise the chunks are concatenated.
RECURSIVE InOrder(_, _)
InOrder(writes, acc) ==
    IF writes = <<>> THEN Ok(acc)
    ELSE IF Head(writes).kind # "ok" THEN Head(writes)
    ELSE InOrder(Tail(writes), acc \o Head(writes).val)

\* The inner TLV of a list of sub-objects, each through encodeTLV.
encodeSubFields(subFields) ==
    InOrder([i \in 1..Len(subFields) |-> encodeTLV(subFields[i].ID, subFields[i].Value)], <<>>)

encodeMerchantAccountInfo(mai) ==
    IF IsTemplate(mai)
    THEN LET inner == encodeSubFields(mai.SubFields)
         IN  IF inner.kind # "ok" THEN inner ELSE encodeTLV(mai.ID, inner.val)
    ELSE encodeTLV(mai.ID, mai.Value)

\* appendIf of encodeAdditionalDataField: an empty value writes nothing.
appendIf(id, val) == IF val = <<>> THEN Ok(<<>>) ELSE encodeTLV(id, val)

encodeAdditionalDataFieldKeepEmpty(adf) ==
    LET named == [n \in 1..9 |-> appendIf(Digits2(n), adf[ADFNames[n]])]
        rfu   == [i \in 1..Len(adf.RFUFields) |->
                     encodeTLV(adf.RFUFields[i].ID, adf.RFUFields[i].Value)]
        inner == InOrder(named \o rfu, <<>>)
    IN  IF inner.kind # "ok" THEN inner
        ELSE encodeTLV(IDAdditionalDataFieldTemplate, inner.val)

encodeAdditionalDataField(adf) ==
    LET named == [n \in 1..9 |-> appendIf(Digits2(n), adf[ADFNames[n]])]
        rfu   == [i \in 1..Len(adf.RFUFields) |->
                     appendIf(adf.RFUFields[i].ID, adf.RFUFields[i].Value)]
        inner == InOrder(named \o rfu, <<>>)
    IN  IF inner.kind # "ok" THEN inner
        ELSE encodeTLV(IDAdditionalDataFieldTemplate, inner.val)

encodeLanguageTemplate(lt) ==
    LET named == <<appendIf(LangPreference, lt.LanguagePreference),
                   appendIf(LangMerchantName, lt.MerchantName),
                   appendIf(LangMerchantCity, lt.MerchantCity)>>
        rfu   == [i \in 1..Len(lt.RFUFields) |->
                     encodeTLV(lt.RFUFields[i].ID, lt.RFUFields[i].Value)]
        inner == InOrder(named \o rfu, <<>>)
    IN  IF inner.kind # "ok" THEN inner
        ELSE encodeTLV(IDMerchantInfoLanguageTemplate, inner.val)

encodeUnreservedTemplate(ut) ==
    LET a == Atoi(ut.ID)
    IN  IF ~a.ok \/ a.n < 80 \/ a.n > 99 THEN Err("invalidUnreservedTemplateID")
        ELSE LET inner == InOrder(<<appendIf(MAIGloballyUniqueID, ut.GloballyUniqueID)>>
                                  \o [i \in 1..Len(ut.SubFields) |->
                                         encodeTLV(ut.SubFields[i].ID, ut.SubFields[i].Value)],
                                  <<>>)
             IN  IF inner.kind # "ok" THEN inner ELSE encodeTLV(ut.ID, inner.val)

\* The required string fields in the order validatePayload checks them.
RequiredNames ==
    <<"MerchantCategoryCode", "TransactionCurrency", "CountryCode", "MerchantName",
      "MerchantCity">>

\* validatePayload without the check for a merchant-account entry.
validatePayloadNoMAI(ptr) ==
    IF ptr = Nil THEN ErrNamed("ErrMissingRequired", "nil payload")
    ELSE LET p == ptr[1]
             missing == {i \in 1..Len(RequiredNames) : p[RequiredNames[i]] = <<>>}
         IN  IF missing # {}
             THEN ErrNamed("ErrMissingRequired",
                           RequiredNames[CHOOSE i \in missing : \A j \in missing : i <= j])
             ELSE IF p.TipOrConvenienceIndicator \notin
                        {<<>>, TipIndicatorPromptConsumer, TipIndicatorFixedConvenienceFee,
                         TipIndicatorPercentageFee}
             THEN Err("invalidTipOrConvenienceIndicator")
             ELSE Ok(<<>>)

\* validatePayload without the check of the tip indicator.
validatePayloadAnyTip(ptr) ==
    IF ptr = Nil THEN ErrNamed("ErrMissingRequired", "nil payload")
    ELSE LET p == ptr[1]
             missing == {i \in 1..Len(RequiredNames) : p[RequiredNames[i]] = <<>>}
         IN  IF missing # {}
             THEN ErrNamed("ErrMissingRequired",
                           RequiredNames[CHOOSE i \in missing : \A j \in missing : i <= j])
             ELSE IF Len(p.MerchantAccountInfos) = 0
             THEN ErrNamed("ErrMissingRequired", "at least one MerchantAccountInfo is required")
             ELSE Ok(<<>>)

\* validatePayload on a pointer to a Payload (Nil or <<payload>>).
validatePayload(ptr) ==
    IF ptr = Nil THEN ErrNamed("ErrMissingRequired", "nil payload")
    ELSE LET p == ptr[1]
             missing == {i \in 1..Len(RequiredNames) : p[RequiredNames[i]] = <<>>}
         IN  IF missing # {}
             THEN ErrNamed("ErrMissingRequired",
                           RequiredNames[CHOOSE i \in missing : \A j \in missing : i <= j])
             ELSE IF Len(p.MerchantAccountInfos) = 0
             THEN ErrNamed("ErrMissingRequired", "at least one MerchantAccountInfo is required")
             ELSE IF p.TipOrConvenienceIndicator \notin
                        {<<>>, TipIndicatorPromptConsumer, TipIndicatorFixedConvenienceFee,
                         TipIndicatorPercentageFee}
             THEN Err("invalidTipOrConvenienceIndicator")
             ELSE Ok(<<>>)

\* The writes with the RFU fields ahead of the unreserved templates.
encodeStepsRFUFirst(p, optPFI) ==
    LET pfi0 == IF p.PayloadFormatIndicator = <<>> THEN Digits2(1)
                ELSE p.PayloadFormatIndicator
        pfi  == IF optPFI # <<>> THEN optPFI ELSE pfi0
        tip  == p.TipOrConvenienceIndicator
    IN  <<write(IDPayloadFormatIndicator, pfi)>>
        \o [i \in 1..Len(p.MerchantAccountInfos) |->
               encodeMerchantAccountInfo(p.MerchantAccountInfos[i])]
        \o <<write(IDMerchantCategoryCode, p.MerchantCategoryCode),
             write(IDTransactionCurrency, p.TransactionCurrency)>>
        \o (IF p.TransactionAmount # <<>>
            THEN <<write(IDTransactionAmount, p.TransactionAmount)>> ELSE <<>>)
        \o (IF tip # <<>> THEN <<write(IDTipOrConvenienceIndicator, tip)>> ELSE <<>>)
        \o (IF tip = TipIndicatorFixedConvenienceFee /\ p.ValueConvenienceFeeFixed # <<>>
            THEN <<write(IDValueConvenienceFeeFixed, p.ValueConvenienceFeeFixed)>>
            ELSE <<>>)
        \o (IF tip = TipIndicatorPercentageFee /\ p.ValueConvenienceFeePercent # <<>>
            THEN <<write(IDValueConvenienceFeePercent, p.ValueConvenienceFeePercent)>>
            ELSE <<>>)
        \o <<write(IDCountryCode, p.CountryCode),
             write(IDMerchantName, p.MerchantName),
             write(IDMerchantCity, p.MerchantCity)>>
        \o (IF p.PostalCode # <<>> THEN <<write(IDPostalCode, p.PostalCode)>> ELSE <<>>)
        \o (IF p.AdditionalData # Nil
            THEN <<encodeAdditionalDataField(p.AdditionalData[1])>> ELSE <<>>)
        \o (IF p.LanguageTemplate # Nil
            THEN <<encodeLanguageTemplate(p.LanguageTemplate[1])>> ELSE <<>>)
        \o [i \in 1..Len(p.RFUFields) |-> write(p.RFUFields[i].ID, p.RFUFields[i].Value)]
        \o [i \in 1..Len(p.UnreservedTemplates) |->
               encodeUnreservedTemplate(p.UnreservedTemplates[i])]

\* The writes with each stored fee value following the indicator, whatever
\* the indicator is.
encodeStepsStoredFees(p, optPFI) ==
    LET pfi0 == IF p.PayloadFormatIndicator = <<>> THEN Digits2(1)
                ELSE p.PayloadFormatIndicator
        pfi  == IF optPFI # <<>> THEN optPFI ELSE pfi0
        tip  == p.TipOrConvenienceIndicator
    IN  <<write(IDPayloadFormatIndicator, pfi)>>
        \o [i \in 1..Len(p.MerchantAccountInfos) |->
               encodeMerchantAccountInfo(p.MerchantAccountInfos[i])]
        \o <<write(IDMerchantCategoryCode, p.MerchantCategoryCode),
             write(IDTransactionCurrency, p.TransactionCurrency)>>
        \o (IF p.TransactionAmount # <<>>
            THEN <<write(IDTransactionAmount, p.TransactionAmount)>> ELSE <<>>)
        \o (IF tip # <<>> THEN <<write(IDTipOrConvenienceIndicator, tip)>> ELSE <<>>)
        \o (IF tip # <<>> /\ p.ValueConvenienceFeeFixed # <<>>
            THEN <<write(IDValueConvenienceFeeFixed, p.ValueConvenienceFeeFixed)>>
            ELSE <<>>)
        \o (IF tip # <<>> /\ p.ValueConvenienceFeePercent # <<>>
            THEN <<write(IDValueConvenienceFeePercent, p.ValueConvenienceFeePercent)>>
            ELSE <<>>)
        \o <<write(IDCountryCode, p.CountryCode),
             write(IDMerchantName, p.MerchantName),
             write(IDMerchantCity, p.MerchantCity)>>
        \o (IF p.PostalCode # <<>> THEN <<write(IDPostalCode, p.PostalCode)>> ELSE <<>>)
        \o (IF p.AdditionalData # Nil
            THEN <<encodeAdditionalDataField(p.AdditionalData[1])>> ELSE <<>>)
        \o (IF p.LanguageTemplate # Nil
            THEN <<encodeLanguageTemplate(p.LanguageTemplate[1])>> ELSE <<>>)
        \o [i \in 1..Len(p.UnreservedTemplates) |->
               encodeUnreservedTemplate(p.UnreservedTemplates[i])]
        \o [i \in 1..Len(p.RFUFields) |-> write(p.RFUFields[i].ID, p.RFUFields[i].Value)]

\* The writes of EncodeWithOptions between validation and the CRC, in order.
encodeSteps(p, optPFI) ==
    LET pfi0 == IF p.PayloadFormatIndicator = <<>> THEN Digits2(1)
                ELSE p.PayloadFormatIndicator
        pfi  == IF optPFI # <<>> THEN optPFI ELSE pfi0
        tip  == p.TipOrConvenienceIndicator
    IN  <<write(IDPayloadFormatIndicator, pfi)>>
        \o [i \in 1..Len(p.MerchantAccountInfos) |->
               encodeMerchantAccountInfo(p.MerchantAccountInfos[i])]
        \o <<write(IDMerchantCategoryCode, p.MerchantCategoryCode),
             write(IDTransactionCurrency, p.TransactionCurrency)>>
        \o (IF p.TransactionAmount # <<>>
            THEN <<write(IDTransactionAmount, p.TransactionAmount)>> ELSE <<>>)
        \o (IF tip # <<>> THEN <<write(IDTipOrConvenienceIndicator, tip)>> ELSE <<>>)
        \o (IF tip = TipIndicatorFixedConvenienceFee /\ p.ValueConvenienceFeeFixed # <<>>
            THEN <<write(IDValueConvenienceFeeFixed, p.ValueConvenienceFeeFixed)>>
            ELSE <<>>)
        \o (IF tip = TipIndicatorPercentageFee /\ p.ValueConvenienceFeePercent # <<>>
            THEN <<write(IDValueConvenienceFeePercent, p.ValueConvenienceFeePercent)>>
            ELSE <<>>)
        \o <<write(IDCountryCode, p.CountryCode),
             write(IDMerchantName, p.MerchantName),
             write(IDMerchantCity, p.MerchantCity)>>
        \o (IF p.PostalCode # <<>> THEN <<write(IDPostalCode, p.PostalCode)>> ELSE <<>>)
        \o (IF p.AdditionalData # Nil
            THEN <<encodeAdditionalDataField(p.AdditionalData[1])>> ELSE <<>>)
        \o (IF p.LanguageTemplate # Nil
            THEN <<encodeLanguageTemplate(p.LanguageTemplate[1])>> ELSE <<>>)
        \o [i \in 1..Len(p.UnreservedTemplates) |->
               encodeUnreservedTemplate(p.UnreservedTemplates[i])]
        \o [i \in 1..Len(p.RFUFields) |-> write(p.RFUFields[i].ID, p.RFUFields[i].Value)]

\* EncodeWithOptions writing the Payload's CRC field when it holds one.
EncodeWithOptionsStoredCRC(ptr, optPFI) ==
    LET v == validatePayload(ptr)
    IN  IF v.kind # "ok" THEN v
        ELSE LET body == InOrder(encodeSteps(ptr[1], optPFI), <<>>)
             IN  IF body.kind # "ok" THEN body
                 ELSE LET crcPrefix == body.val \o CRCHeader
                      IN  Ok(crcPrefix \o (IF ptr[1].CRC # <<>> THEN ptr[1].CRC
                                           ELSE crcString(crc16CCITT(crcPrefix))))

\* EncodeWithOptions(p, EncodeOptions{PayloadFormatIndicator: optPFI}).
EncodeWithOptions(ptr, optPFI) ==
    LET v == validatePayload(ptr)
    IN  IF v.kind # "ok" THEN v
        ELSE LET body == InOrder(encodeSteps(ptr[1], optPFI), <<>>)
             IN  IF body.kind # "ok" THEN body
                 ELSE LET crcPrefix == body.val \o CRCHeader
                      IN  Ok(crcPrefix \o crcString(crc16CCITT(crcPrefix)))

Encode(ptr) == EncodeWithOptions(ptr, <<>>)

-----------------------------------------------------------------------------
(* SpecTLV: the codec on strings.  The input grows by raw pieces (any       *)
(* bytes, so truncated and malformed strings arise) or by units written     *)
(* with encodeTLV; parseTLV and DecodeWithOptions are applied to it.        *)

MaxRawLen == 9

MaxObjs == 2

Rep(c, n) == [i \in 1..n |-> c]

\* n times the two-byte UTF-8 character U+00E9.
RepE(n) == [i \in 1..(2 * n) |-> IF i % 2 = 1 THEN 195 ELSE 169]

\* "00", "04", "63", "-1", "+1", "0A", "1"
RawPieces ==
    {<<48, 48>>, <<48, 52>>, <<54, 51>>, <<45, 49>>, <<43, 49>>, <<48, 65>>, <<49>>}

\* "00", "A+"
TLVIds == {<<48, 48>>, <<65, 43>>}

TLVValues == {<<>>, RepE(1), Rep(55, 10), Rep(55, MaxValueLen), Rep(55, MaxValueLen + 1),
              RepE(50)}

InitTLV ==
    /\ input = <<>>
    /\ objsIn = <<>>
    /\ wellFormed = TRUE
    /\ tlvEnc = NotRun
    /\ parsed = NotRun
    /\ decoded = NotRun
    /\ p0 = Nil
    /\ steps = 0
    /\ enc1 = NotRun
    /\ wire = <<>>
    /\ wireKind = "none"
    /\ dec1 = NotRun
    /\ enc2 = NotRun
    /\ dec2 = NotRun
    /\ bp = EmptyPayload
    /\ origin = "none"
    /\ calls = 0
    /\ last = NotRun
    /\ asked = NotRun

\* A raw input is built from pieces alone.
AppendRaw(piece) ==
    /\ tlvEnc = NotRun
    /\ Len(input) + Len(piece) <= MaxRawLen
    /\ input' = input \o piece
    /\ wellFormed' = FALSE
    /\ parsed' = NotRun
    /\ decoded' = NotRun
    /\ UNCHANGED <<objsIn, tlvEnc>>
    /\ UNCHANGED lifeVars
    /\ UNCHANGED buildVars

\* A caller serializes one more (id, value) pair; a rejected value adds nothing.
AppendObj(id, value) ==
    /\ wellFormed
    /\ Len(objsIn) < MaxObjs
    /\ LET out == encodeTLV(id, value)
       IN  /\ tlvEnc' = [id |-> id, value |-> value, out |-> out]
           /\ input' = IF out.kind = "ok" THEN input \o out.val ELSE input
           /\ objsIn' = IF out.kind = "ok"
                        THEN Append(objsIn, [id |-> id, value |-> value]) ELSE objsIn
    /\ parsed' = NotRun
    /\ decoded' = NotRun
    /\ UNCHANGED wellFormed
    /\ UNCHANGED lifeVars
    /\ UNCHANGED buildVars

Parse ==
    /\ parsed = NotRun
    /\ parsed' = parseTLV(input)
    /\ UNCHANGED <<input, objsIn, wellFormed, tlvEnc, decoded>>
    /\ UNCHANGED lifeVars
    /\ UNCHANGED buildVars

DecodeRaw(skip) ==
    /\ decoded = NotRun
    /\ decoded' = [skip |-> skip, out |-> DecodeWithOptions(input, skip)]
    /\ UNCHANGED <<input, objsIn, wellFormed, tlvEnc, parsed>>
    /\ UNCHANGED lifeVars
    /\ UNCHANGED buildVars

NextTLV ==
    \/ \E piece \in RawPieces : AppendRaw(piece)
    \/ \E id \in TLVIds, value \in TLVValues : AppendObj(id, value)
    \/ Parse
    \/ \E skip \in BOOLEAN : DecodeRaw(skip)

SpecTLV == InitTLV /\ [][NextTLV]_vars

-----------------------------------------------------------------------------
(* Claims on the codec *)

\* C3: malformed input never panics: parseTLV and DecodeWithOptions, with or
\* without CRC checking, end with a result or an error value on every input,
\* and parseTLV answers every truncated input with ErrInvalidTLV.
C3_NeverPanics ==
    /\ parsed # NotRun =>
          /\ parsed.kind \in {"ok", "error"}
          /\ (Len(input) \in 1..3 => parsed.kind = "error" /\ parsed.err = "ErrInvalidTLV")
    /\ decoded # NotRun => decoded.out.kind \in {"ok", "error"}

\* C4: TLV totality: parseTLV of the concatenation of encodeTLV units returns
\* exactly the pairs written, in order, and re-serializing the returned pairs
\* reproduces the input byte for byte.
C4_TLVTotality ==
    (wellFormed /\ parsed # NotRun) =>
        /\ parsed.kind = "ok"
        /\ parsed.val = objsIn
        /\ LET again == [i \in 1..Len(parsed.val) |->
                            encodeTLV(parsed.val[i].id, parsed.val[i].value)]
           IN  /\ \A i \in 1..Len(again) : again[i].kind = "ok"
               /\ Concat([i \in 1..Len(again) |-> again[i].val]) = input

C4_Witness ==
    /\ wellFormed
    /\ parsed # NotRun
    /\ Len(objsIn) = 2
    /\ Len(objsIn[1].value) = MaxValueLen
    /\ objsIn[2].value = <<>>
    /\ parsed.kind = "ok"

\* C5: length bound: encodeTLV rejects every value longer than 99 bytes, and
\* for a value of 0..99 bytes returns the id, then exactly two decimal digits
\* whose value is the byte length, then the value.
C5_LengthBound ==
    tlvEnc # NotRun =>
        LET n == Len(tlvEnc.value)
            w == tlvEnc.out.val
        IN  /\ n > 99 => tlvEnc.out.kind = "error" /\ w = <<>>
            /\ n <= 99 =>
                  /\ tlvEnc.out.kind = "ok"
                  /\ Len(w) = 4 + n
                  /\ SubSeq(w, 1, 2) = tlvEnc.id
                  /\ IsDigit(w[3]) /\ IsDigit(w[4])
                  /\ 10 * (w[3] - 48) + (w[4] - 48) = n
                  /\ SubSeq(w, 5, Len(w)) = tlvEnc.value

\* A 100-byte value of 50 two-byte characters was rejected, and a value whose
\* byte length differs from its character count was written.
C5_WitnessReject ==
    /\ tlvEnc # NotRun
    /\ Len(tlvEnc.value) = 100
    /\ RuneCount(tlvEnc.value) = 50
    /\ tlvEnc.out.kind = "error"

\* The CRC header validateCRC locates in raw (the last "6304") is followed
\* by 4 characters.
HasCRCField(raw) ==
    LET h == LastIndex(raw, CRCHeader) IN Len(raw) >= 8 /\ h # 0 - 1 /\ h + 8 <= Len(raw)

\* Those 4 characters are the checksum of the string up to and including the
\* header, in either case of the hex letters.
CRCMatches(raw) ==
    LET h == LastIndex(raw, CRCHeader)
    IN  ToUpper(Slice(raw, h + 4, h + 8)) = crcString(crc16CCITT(Slice(raw, 0, h + 4)))

\* The messages of parseTLV's structure errors.
ParseFaults ==
    {"expected at least 4 chars", "non-numeric length", "declared length exceeds remaining data"}

\* C11: CRC is verified before parsing: with CRC checking enabled, a string
\* of 8 or more bytes whose CRC header is followed by 4 characters that are
\* not the computed checksum fails with ErrCRCMismatch, malformed TLV or not;
\* a structure error of TLV parsing is returned only when the CRC check has
\* passed or was skipped.
C11_CRCBeforeParse ==
    decoded # NotRun =>
        /\ (~decoded.skip /\ HasCRCField(input) /\ ~CRCMatches(input))
           => /\ decoded.out.kind = "error"
              /\ decoded.out.err = "ErrCRCMismatch"
              /\ decoded.out.val = Nil
        /\ (decoded.out.kind = "error" /\ decoded.out.name \in ParseFaults)
           => decoded.skip \/ (HasCRCField(input) /\ CRCMatches(input))

C11_Witness ==
    /\ decoded # NotRun /\ ~decoded.skip
    /\ HasCRCField(input) /\ ~CRCMatches(input)
    /\ parseTLV(input).kind = "error"
    /\ decoded.out.err = "ErrCRCMismatch"

\* The faults the claim lists, found while reading s object by object: 1 to 3
\* bytes where an object starts, a length field that is not two decimal
\* digits, or a declared length beyond the bytes after the 4-byte header.
RECURSIVE StructureFault(_)
StructureFault(s) ==
    IF Len(s) = 0 THEN FALSE
    ELSE IF Len(s) < 4 THEN TRUE
    ELSE IF ~(IsDigit(s[3]) /\ IsDigit(s[4])) THEN TRUE
    ELSE LET n == 10 * (s[3] - 48) + (s[4] - 48)
         IN  IF n > Len(s) - 4 THEN TRUE
             ELSE StructureFault(SubSeq(s, 5 + n, Len(s)))

\* C13: parseTLV fails with ErrInvalidTLV and no objects exactly when 1 to 3
\* bytes remain where an object starts, a length field is not two decimal
\* digits (signed forms such as "+5" and "-1" included) or a declared length
\* exceeds the bytes remaining; the empty string parses to the empty sequence.
C13_ParseFailures ==
    parsed # NotRun =>
        /\ StructureFault(input)
           <=> (parsed.kind = "error" /\ parsed.err = "ErrInvalidTLV" /\ parsed.val = <<>>)
        /\ input = <<>> => parsed.kind = "ok" /\ parsed.val = <<>>

-----------------------------------------------------------------------------
(* Builders (NewPayload, Add...MerchantAccount, Set...) *)

NewPayload == [EmptyPayload EXCEPT !.PayloadFormatIndicator = Digits2(1)]

\* The IDs in use, as nextPrimitiveMAIID and nextTemplateMAIID collect them.
usedIDs(p) ==
    {Atoi(p.MerchantAccountInfos[i].ID).n :
        i \in {j \in 1..Len(p.MerchantAccountInfos) : Atoi(p.MerchantAccountInfos[j].ID).ok}}

\* nextFreeID taking an ID as used only when an entry carries its two digits.
nextFreeIDByText(p, lo, hi) ==
    LET ids  == {p.MerchantAccountInfos[i].ID : i \in 1..Len(p.MerchantAccountInfos)}
        free == {i \in lo..hi : Fmt02d(i) \notin ids}
    IN  IF free = {} THEN <<>> ELSE Fmt02d(CHOOSE i \in free : \A j \in free : i <= j)

nextFreeID(p, lo, hi) ==
    LET free == {i \in lo..hi : i \notin usedIDs(p)}
    IN  IF free = {} THEN <<>> ELSE Fmt02d(CHOOSE i \in free : \A j \in free : i <= j)

nextPrimitiveMAIID(p) == nextFreeID(p, 2, 25)

nextTemplateMAIID(p) == nextFreeID(p, 26, 51)

AddPrimitiveMerchantAccount(p, id, value) ==
    LET id1 == IF id = <<>> THEN nextPrimitiveMAIID(p) ELSE id
        a   == Atoi(id1)
    IN  IF ~a.ok \/ a.n < 2 \/ a.n > 25 THEN [Err("invalidPrimitiveID") EXCEPT !.val = p]
        ELSE Ok([p EXCEPT !.MerchantAccountInfos =
                              Append(@, MerchantAccountInfo(id1, value, <<>>))])

AddTemplateMerchantAccount(p, id, globallyUniqueID, extra) ==
    LET id1 == IF id = <<>> THEN nextTemplateMAIID(p) ELSE id
        a   == Atoi(id1)
    IN  IF ~a.ok \/ a.n < 26 \/ a.n > 51 THEN [Err("invalidTemplateID") EXCEPT !.val = p]
        ELSE Ok([p EXCEPT !.MerchantAccountInfos =
                     Append(@, MerchantAccountInfo(id1, <<>>,
                                   <<DataObject(MAIGloballyUniqueID, globallyUniqueID)>>
                                   \o extra))])

SetFixedConvenienceFee(p, amount) ==
    [p EXCEPT !.TipOrConvenienceIndicator = TipIndicatorFixedConvenienceFee,
              !.ValueConvenienceFeeFixed = amount,
              !.ValueConvenienceFeePercent = <<>>]

SetPercentageConvenienceFee(p, percent) ==
    [p EXCEPT !.TipOrConvenienceIndicator = TipIndicatorPercentageFee,
              !.ValueConvenienceFeePercent = percent,
              !.ValueConvenienceFeeFixed = <<>>]

\* SetPromptForTip leaving the stored fee values as they are.
SetPromptForTipKeepFees(p) ==
    [p EXCEPT !.TipOrConvenienceIndicator = TipIndicatorPromptConsumer]

SetPromptForTip(p) ==
    [p EXCEPT !.TipOrConvenienceIndicator = TipIndicatorPromptConsumer,
              !.ValueConvenienceFeeFixed = <<>>,
              !.ValueConvenienceFeePercent = <<>>]

\* SetAdditionalData with a callback that assigns one field of the struct.
SetAdditionalData(p, field, value) ==
    LET adf == IF p.AdditionalData = Nil THEN EmptyADF ELSE p.AdditionalData[1]
    IN  [p EXCEPT !.AdditionalData = <<[adf EXCEPT ![field] = value]>>]

SetLanguageTemplate(p, lang, name, city) ==
    [p EXCEPT !.LanguageTemplate =
        <<[EmptyLT EXCEPT !.LanguagePreference = lang, !.MerchantName = name,
                          !.MerchantCity = city]>>]

-----------------------------------------------------------------------------
(* Computed helpers on Payload (TotalAmount, Preferred..., HasMultiple...)  *)
(*                                                                          *)
(* A float64 is modelled as an exact decimal: n * 10^(-s) with no trailing  *)
(* zero in n when s > 0, or one of the special values NaN and +-Inf.  The   *)
(* arithmetic is exact; the amounts and fees the specification uses are     *)
(* ones for which the float64 results are these decimals.                   *)

RECURSIVE Pow10(_)
Pow10(k) == IF k <= 0 THEN 1 ELSE 10 * Pow10(k - 1)

RECURSIVE Num(_, _)
Num(n, s) == IF s > 0 /\ n % 10 = 0 THEN Num(n \div 10, s - 1) ELSE [k |-> "num", n |-> n, s |-> s]

NaN == [k |-> "NaN"]

Inf(neg) == [k |-> "Inf", neg |-> neg]

\* a + b
FAdd(a, b) ==
    IF a.k = "NaN" \/ b.k = "NaN" THEN NaN
    ELSE IF a.k = "Inf" THEN (IF b.k = "Inf" /\ b.neg # a.neg THEN NaN ELSE a)
    ELSE IF b.k = "Inf" THEN b
    ELSE LET s == IF a.s > b.s THEN a.s ELSE b.s
         IN  Num(a.n * Pow10(s - a.s) + b.n * Pow10(s - b.s), s)

\* a * b
FMul(a, b) ==
    IF a.k = "NaN" \/ b.k = "NaN" THEN NaN
    ELSE IF a.k = "Inf" \/ b.k = "Inf"
    THEN LET an == IF a.k = "Inf" THEN a.neg ELSE a.n < 0
             bn == IF b.k = "Inf" THEN b.neg ELSE b.n < 0
             zero == (a.k = "num" /\ a.n = 0) \/ (b.k = "num" /\ b.n = 0)
         IN  IF zero THEN NaN ELSE Inf(an # bn)
    ELSE Num(a.n * b.n, a.s + b.s)

\* a / 100
FDiv100(a) == IF a.k = "num" THEN Num(a.n, a.s + 2) ELSE a

\* strconv.ParseFloat(str, 64) on decimal notation (sign, digits, point,
\* exponent) and on the special values "NaN", "Inf" and "Infinity" in any
\* case; hexadecimal notation and digit separators are rejected here.
ParseFloat(str) ==
    LET signed == Len(str) > 0 /\ str[1] \in {43, 45}
        neg    == signed /\ str[1] = 45
        body   == IF signed THEN Tail(str) ELSE str
        es     == {i \in 1..Len(body) : body[i] \in {69, 101}}
        ePos   == IF es = {} THEN Len(body) + 1 ELSE CHOOSE i \in es : \A j \in es : i <= j
        mant   == SubSeq(body, 1, ePos - 1)
        expo   == SubSeq(body, ePos + 1, Len(body))
        eSign  == Len(expo) > 0 /\ expo[1] \in {43, 45}
        eDigs  == IF eSign THEN Tail(expo) ELSE expo
        dots   == {i \in 1..Len(mant) : mant[i] = 46}
        dPos   == IF dots = {} THEN Len(mant) + 1 ELSE CHOOSE i \in dots : TRUE
        int    == SubSeq(mant, 1, dPos - 1)
        frac   == SubSeq(mant, dPos + 1, Len(mant))
        allDigits(t) == \A i \in 1..Len(t) : IsDigit(t[i])
        ok     == /\ Cardinality(dots) <= 1
                  /\ allDigits(int) /\ allDigits(frac)
                  /\ Len(int) + Len(frac) >= 1
                  /\ es = {} \/ (Len(eDigs) >= 1 /\ allDigits(eDigs))
        e      == IF es = {} THEN 0
                  ELSE (IF eSign /\ expo[1] = 45 THEN 0 - 1 ELSE 1) * DigitsValue(eDigs, 0)
        n      == (IF neg THEN 0 - 1 ELSE 1) * DigitsValue(int \o frac, 0)
        s      == Len(frac) - e
    IN  IF ToUpper(str) = <<78, 65, 78>> THEN Ok(NaN)
        ELSE IF ToUpper(body) \in {<<73, 78, 70>>, <<73, 78, 70, 73, 78, 73, 84, 89>>}
        THEN Ok(Inf(neg))
        ELSE IF ~ok THEN [Err("ErrSyntax") EXCEPT !.val = Num(0, 0)]
        ELSE Ok(IF s >= 0 THEN Num(n, s) ELSE Num(n * Pow10(0 - s), 0))

\* (p *Payload).TotalAmount
TotalAmount(p) ==
    IF p.TransactionAmount = <<>>
    THEN [ErrNamed("error", "TransactionAmount not present in payload") EXCEPT !.val = Num(0, 0)]
    ELSE LET base == ParseFloat(p.TransactionAmount)
         IN  IF base.kind # "ok"
             THEN [ErrNamed("ErrSyntax", "invalid TransactionAmount") EXCEPT !.val = Num(0, 0)]
             ELSE IF p.TipOrConvenienceIndicator = TipIndicatorFixedConvenienceFee
             THEN IF p.ValueConvenienceFeeFixed = <<>> THEN Ok(base.val)
                  ELSE LET fee == ParseFloat(p.ValueConvenienceFeeFixed)
                       IN  IF fee.kind # "ok"
                           THEN [ErrNamed("ErrSyntax", "invalid ValueConvenienceFeeFixed")
                                    EXCEPT !.val = Num(0, 0)]
                           ELSE Ok(FAdd(base.val, fee.val))
             ELSE IF p.TipOrConvenienceIndicator = TipIndicatorPercentageFee
             THEN IF p.ValueConvenienceFeePercent = <<>> THEN Ok(base.val)
                  ELSE LET pct == ParseFloat(p.ValueConvenienceFeePercent)
                       IN  IF pct.kind # "ok"
                           THEN [ErrNamed("ErrSyntax", "invalid ValueConvenienceFeePercent")
                                    EXCEPT !.val = Num(0, 0)]
                           ELSE Ok(FAdd(base.val, FMul(base.val, FDiv100(pct.val))))
             ELSE Ok(base.val)

\* PreferredMerchantName comparing the language tags without regard to case.
PreferredMerchantNameFold(p, lang) ==
    IF /\ p.LanguageTemplate # Nil
       /\ p.LanguageTemplate[1].MerchantName # <<>>
       /\ ToUpper(p.LanguageTemplate[1].LanguagePreference) = ToUpper(lang)
    THEN p.LanguageTemplate[1].MerchantName
    ELSE p.MerchantName

PreferredMerchantName(p, lang) ==
    IF /\ p.LanguageTemplate # Nil
       /\ p.LanguageTemplate[1].MerchantName # <<>>
       /\ p.LanguageTemplate[1].LanguagePreference = lang
    THEN p.LanguageTemplate[1].MerchantName
    ELSE p.MerchantName

PreferredMerchantCity(p, lang) ==
    IF /\ p.LanguageTemplate # Nil
       /\ p.LanguageTemplate[1].MerchantCity # <<>>
       /\ p.LanguageTemplate[1].LanguagePreference = lang
    THEN p.LanguageTemplate[1].MerchantCity
    ELSE p.MerchantCity

\* HasMultipleNetworks counting only the entries of distinct IDs.
HasMultipleNetworksDistinct(p) ==
    Cardinality({p.MerchantAccountInfos[i].ID : i \in 1..Len(p.MerchantAccountInfos)}) > 1

HasMultipleNetworks(p) == Len(p.MerchantAccountInfos) > 1

-----------------------------------------------------------------------------
(* Spec: a caller builds a Payload, encodes it, decodes the string (as it   *)
(* is, or with one of its last four characters changed) and encodes the     *)
(* decoded Payload again; or decodes a string another encoder produced.     *)

MaxSteps == 1

\* basePayload() of the tests with short values: MAI "02"="4", category "5",
\* currency "8", country "U", name "5T", city "C".  Its CRC is "630F".
BasePayload ==
    [NewPayload EXCEPT !.MerchantAccountInfos = <<MerchantAccountInfo(Digits2(2), <<52>>, <<>>)>>,
                       !.MerchantCategoryCode = <<53>>,
                       !.TransactionCurrency = <<56>>,
                       !.CountryCode = <<85>>,
                       !.MerchantName = <<53, 84>>,
                       !.MerchantCity = <<67>>]

\* The same with name "FBY": its CRC is "6304".
BasePayloadFBY == [BasePayload EXCEPT !.MerchantName = <<70, 66, 89>>]

\* A Payload with every optional part: amount "5", fixed fee "1", postal code
\* "9", a template entry 26 (GUID "g", sub-field 01 "v"), additional data (bill
\* number "b", loyalty number "***", RFU 10 "x"), a language template ("es",
\* "n", "c", RFU 03 "r"), an unreserved template 80 (GUID "g", sub-field 01
\* "x") and the RFU fields 01 "11" and 65 "".
FullPayload ==
    LET a == AddTemplateMerchantAccount(BasePayload, <<>>, <<103>>,
                                        <<DataObject(Digits2(1), <<118>>)>>).val
        b == SetFixedConvenienceFee(a, <<49>>)
        c == SetAdditionalData(SetAdditionalData(SetAdditionalData(b,
                 "BillNumber", <<98>>), "LoyaltyNumber", <<42, 42, 42>>),
                 "RFUFields", <<DataObject(Digits2(10), <<120>>)>>)
        d == SetLanguageTemplate(c, <<101, 115>>, <<110>>, <<99>>)
    IN  [d EXCEPT !.TransactionAmount = <<53>>,
                  !.PostalCode = <<57>>,
                  !.LanguageTemplate[1].RFUFields = <<DataObject(Digits2(3), <<114>>)>>,
                  !.UnreservedTemplates =
                      <<[ID |-> Digits2(80), GloballyUniqueID |-> <<103>>,
                         SubFields |-> <<DataObject(Digits2(1), <<120>>)>>]>>,
                  !.RFUFields = <<DataObject(Digits2(1), <<49, 49>>),
                                  DataObject(Digits2(65), <<>>)>>]

InitialPayloads == {Nil, <<BasePayload>>, <<BasePayloadFBY>>, <<FullPayload>>}

\* The caller's steps on a Payload: assignments to its exported fields and
\* builder calls.
SetEmpty(f) == [op |-> "set", field |-> f, value |-> <<>>]

Edits ==
    <<SetEmpty("MerchantCategoryCode"), SetEmpty("TransactionCurrency"),
      SetEmpty("CountryCode"), SetEmpty("MerchantName"), SetEmpty("MerchantCity"),
      SetEmpty("MerchantAccountInfos"),
      [op |-> "set", field |-> "TipOrConvenienceIndicator", value |-> Digits2(4)],
      [op |-> "set", field |-> "TipOrConvenienceIndicator", value |-> Digits2(0)],
      [op |-> "set", field |-> "TipOrConvenienceIndicator", value |-> <<49>>],
      [op |-> "set", field |-> "ValueConvenienceFeeFixed", value |-> <<49>>],
      [op |-> "set", field |-> "TransactionAmount", value |-> <<53>>],
      [op |-> "set", field |-> "MerchantName", value |-> Rep(78, MaxValueLen + 1)],
      [op |-> "set", field |-> "PostalCode", value |-> <<57>>],
      [op |-> "SetPromptForTip"],
      [op |-> "SetPercentageConvenienceFee", value |-> <<51>>],
      [op |-> "AddPrimitiveMerchantAccount", value |-> <<118>>],
      [op |-> "AddTemplateMerchantAccount", value |-> Rep(118, MaxValueLen)],
      [op |-> "appendMAI", value |-> MerchantAccountInfo(Digits2(26), <<118>>, <<>>)],
      [op |-> "SetAdditionalData", field |-> "BillNumber", value |-> Rep(98, MaxValueLen)],
      [op |-> "appendADFRFU", value |-> DataObject(Digits2(10), <<>>)],
      [op |-> "SetLanguageTemplate"],
      [op |-> "appendLTRFU", value |-> DataObject(Digits2(3), <<>>)],
      [op |-> "appendRFU", value |-> DataObject(Digits2(65), <<>>)],
      [op |-> "appendRFU", value |-> DataObject(Digits2(1), Rep(49, MaxValueLen + 1))],
      [op |-> "appendRFU", value |-> DataObject(IDTransactionAmount, <<55>>)],
      [op |-> "appendUT", value |-> [ID |-> Digits2(81), GloballyUniqueID |-> <<>>,
                                      SubFields |-> <<DataObject(Digits2(0), <<103>>)>>]],
      [op |-> "appendUT", value |-> [ID |-> Digits2(79), GloballyUniqueID |-> <<103>>,
                                      SubFields |-> <<>>]]>>

ApplyEdit(p, e) ==
    CASE e.op = "set" -> [p EXCEPT ![e.field] = e.value]
      [] e.op = "SetPromptForTip" -> SetPromptForTip(p)
      [] e.op = "SetPercentageConvenienceFee" -> SetPercentageConvenienceFee(p, e.value)
      [] e.op = "AddPrimitiveMerchantAccount" ->
            AddPrimitiveMerchantAccount(p, <<>>, e.value).val
      [] e.op = "AddTemplateMerchantAccount" ->
            AddTemplateMerchantAccount(p, <<>>, <<103>>,
                                       <<DataObject(Digits2(1), e.value)>>).val
      [] e.op = "appendMAI" -> [p EXCEPT !.MerchantAccountInfos = Append(@, e.value)]
      [] e.op = "SetAdditionalData" -> SetAdditionalData(p, e.field, e.value)
      [] e.op = "appendADFRFU" ->
            SetAdditionalData(p, "RFUFields",
                Append(IF p.AdditionalData = Nil THEN <<>> ELSE p.AdditionalData[1].RFUFields,
                       e.value))
      [] e.op = "SetLanguageTemplate" -> SetLanguageTemplate(p, <<101, 115>>, <<110>>, <<99>>)
      [] e.op = "appendLTRFU" ->
            [p EXCEPT !.LanguageTemplate =
                <<[(IF @ = Nil THEN EmptyLT ELSE @[1]) EXCEPT !.RFUFields = Append(@, e.value)]>>]
      [] e.op = "appendRFU" -> [p EXCEPT !.RFUFields = Append(@, e.value)]
      [] e.op = "appendUT" -> [p EXCEPT !.UnreservedTemplates = Append(@, e.value)]

\* A string of another encoder: the units of body, then the CRC field.
WithCRC(body) == body \o CRCHeader \o crcString(crc16CCITT(body \o CRCHeader))

Unit(id, value) == encodeTLV(id, value).val

\* Strings with objects this library does not know: top-level 01 and 65
\* (empty) around the known ones, sub-objects 10 (empty) and 11 in the
\* Additional Data Field, sub-object 03 (empty) in the Language Template
\* One string carries the indicator "01" followed by a fixed fee (56).
ForeignBodyHead ==
    Unit(Digits2(0), Digits2(1)) \o Unit(Digits2(1), <<49, 49>>) \o Unit(Digits2(2), <<52>>)
    \o Unit(Digits2(52), <<53>>) \o Unit(Digits2(53), <<56>>) \o Unit(Digits2(58), <<85>>)
    \o Unit(Digits2(59), <<78>>) \o Unit(Digits2(60), <<67>>)

\* The IDs of fields whose value is itself a TLV sequence: a template
\* merchant account, the Additional Data Field, the Language Template and an
\* unreserved template.
NestedIDs == {Digits2(26), IDAdditionalDataFieldTemplate, IDMerchantInfoLanguageTemplate,
              Digits2(80)}

\* Values that are no TLV sequence: "0" (truncated header), "0105b" (declared
\* length beyond the value), "000A" (length not numeric), "00-1" (signed
\* length).
MalformedValues ==
    <<<<48>>, <<48, 49, 48, 53, 98>>, <<48, 48, 48, 65>>, <<48, 48, 45, 49>>>>

\* "000201021640001234567890125204525153038405802US5911ABC Hammers6008New York63047222"
ScenarioA ==
    <<48, 48, 48, 50, 48, 49, 48, 50, 49, 54, 52, 48, 48, 48, 49, 50, 51,
      52, 53, 54, 55, 56, 57, 48, 49, 50, 53, 50, 48, 52, 53, 50, 53, 49,
      53, 51, 48, 51, 56, 52, 48, 53, 56, 48, 50, 85, 83, 53, 57, 49, 49,
      65, 66, 67, 32, 72, 97, 109, 109, 101, 114, 115, 54, 48, 48, 56, 78,
      101, 119, 32, 89, 111, 114, 107, 54, 51, 48, 52, 55, 50, 50, 50>>

\* A string with objects at the edges of the ID ranges: 25, 26 and 51, 79,
\* 80 and 99, and with the IDs "+5", " 7" and "A1".
EdgeIDsWire ==
    WithCRC(ForeignBodyHead
            \o Unit(Digits2(25), <<118>>)
            \o Unit(Digits2(26), Unit(Digits2(0), <<103>>))
            \o Unit(<<32, 55>>, <<119>>)
            \o Unit(Digits2(51), Unit(Digits2(0), <<103>>))
            \o Unit(Digits2(79), <<121>>)
            \o Unit(Digits2(80), Unit(Digits2(0), <<103>>))
            \o Unit(<<43, 53>>, <<118>>)
            \o Unit(Digits2(99), Unit(Digits2(0), <<103>>))
            \o Unit(<<65, 49>>, <<122>>))

ForeignWires ==
    {ScenarioA, EdgeIDsWire,
     WithCRC(ForeignBodyHead \o Unit(IDTipOrConvenienceIndicator, TipIndicatorPromptConsumer)
             \o Unit(IDValueConvenienceFeeFixed, <<49>>)),
     WithCRC(ForeignBodyHead \o Unit(Digits2(65), <<>>)),
     WithCRC(ForeignBodyHead
             \o Unit(Digits2(62), Unit(Digits2(11), <<120>>) \o Unit(Digits2(1), <<98>>))
             \o Unit(Digits2(64), Unit(Digits2(0), <<101, 115>>) \o Unit(Digits2(3), <<>>)
                                  \o Unit(Digits2(1), <<110>>))
             \o Unit(Digits2(65), <<>>)),
     WithCRC(ForeignBodyHead
             \o Unit(Digits2(62), Unit(Digits2(1), <<98>>) \o Unit(Digits2(10), <<>>)
                                  \o Unit(Digits2(11), <<120>>)))}
    \cup {WithCRC(ForeignBodyHead \o Unit(id, MalformedValues[k])) :
             id \in NestedIDs, k \in 1..Len(MalformedValues)}

\* Strings without a CRC field: the known objects alone, and followed by the
\* unknown object 65.
BareWires == {ForeignBodyHead, ForeignBodyHead \o Unit(Digits2(65), <<120>>)}

\* Strings in which the text "6304" and a matching checksum are not the end
\* of the string: a CRC field followed by the object 65, and a CRC field of
\* value "0000" followed by an object 59 whose value is "6304" and the
\* checksum of everything up to there.
TrailingWires ==
    {WithCRC(ForeignBodyHead) \o Unit(Digits2(65), <<122>>),
     WithCRC(ForeignBodyHead \o Unit(IDCRC, <<48, 48, 48, 48>>) \o IDMerchantName \o Digits2(8))}

\* EncodeOptions.PayloadFormatIndicator: unset, or "02".
OptPFIs == {<<>>, Digits2(2)}

\* The characters a last character of the string is changed to: its other
\* case, or one of "0", "3", "4", "6", "G".
TamperChars(c) ==
    (IF c >= 65 /\ c <= 90 THEN {c + 32} ELSE {}) \cup ({48, 51, 52, 54, 71} \ {c})

Init ==
    /\ input = <<>>
    /\ objsIn = <<>>
    /\ wellFormed = TRUE
    /\ tlvEnc = NotRun
    /\ parsed = NotRun
    /\ decoded = NotRun
    /\ steps = 0
    /\ enc1 = NotRun
    /\ dec1 = NotRun
    /\ enc2 = NotRun
    /\ dec2 = NotRun
    /\ bp = EmptyPayload
    /\ origin = "none"
    /\ calls = 0
    /\ last = NotRun
    /\ asked = NotRun
    /\ \/ p0 \in InitialPayloads /\ wire = <<>> /\ wireKind = "none"
       \/ p0 = Nil /\ wire \in ForeignWires /\ wireKind = "foreign"
       \/ p0 = Nil /\ wire \in BareWires /\ wireKind = "nocrc"
       \/ p0 = Nil /\ wire \in TrailingWires /\ wireKind = "trailing"

Edit(e) ==
    /\ p0 # Nil
    /\ enc1 = NotRun
    /\ wireKind = "none"
    /\ steps < MaxSteps
    /\ p0' = <<ApplyEdit(p0[1], e)>>
    /\ steps' = steps + 1
    /\ UNCHANGED <<enc1, wire, wireKind, dec1, enc2, dec2>>
    /\ UNCHANGED tlvVars
    /\ UNCHANGED buildVars

DoEncode(optPFI) ==
    /\ enc1 = NotRun
    /\ wireKind = "none"
    /\ LET out == EncodeWithOptions(p0, optPFI)
       IN  /\ enc1' = [opt |-> optPFI, out |-> out]
           /\ wire' = out.val
           /\ wireKind' = IF out.kind = "ok" THEN "encoded" ELSE "none"
    /\ UNCHANGED <<p0, steps, dec1, enc2, dec2>>
    /\ UNCHANGED tlvVars
    /\ UNCHANGED buildVars

\* One of the last four characters of the encoded string is changed.
Tamper(i, c) ==
    /\ wireKind = "encoded"
    /\ dec1 = NotRun
    /\ steps < MaxSteps
    /\ c \in TamperChars(wire[Len(wire) - 4 + i])
    /\ wire' = [wire EXCEPT ![Len(wire) - 4 + i] = c]
    /\ wireKind' = "tampered"
    /\ steps' = steps + 1
    /\ UNCHANGED <<p0, enc1, dec1, enc2, dec2>>
    /\ UNCHANGED tlvVars
    /\ UNCHANGED buildVars

DoDecode(skip) ==
    /\ wireKind \in {"encoded", "tampered", "foreign", "nocrc", "trailing"}
    /\ dec1 = NotRun
    /\ dec1' = [skip |-> skip, out |-> DecodeWithOptions(wire, skip)]
    /\ UNCHANGED <<p0, steps, enc1, wire, wireKind, enc2, dec2>>
    /\ UNCHANGED tlvVars
    /\ UNCHANGED buildVars

ReEncode ==
    /\ dec1 # NotRun
    /\ dec1.out.kind = "ok"
    /\ enc2 = NotRun
    /\ enc2' = Encode(dec1.out.val)
    /\ UNCHANGED <<p0, steps, enc1, wire, wireKind, dec1, dec2>>
    /\ UNCHANGED tlvVars
    /\ UNCHANGED buildVars

\* Decode on the string the second Encode returned.
ReDecode ==
    /\ enc2 # NotRun
    /\ enc2.kind = "ok"
    /\ dec2 = NotRun
    /\ dec2' = Decode(enc2.val)
    /\ UNCHANGED <<p0, steps, enc1, wire, wireKind, dec1, enc2>>
    /\ UNCHANGED tlvVars
    /\ UNCHANGED buildVars

Next ==
    \/ \E k \in 1..Len(Edits) : Edit(Edits[k])
    \/ \E optPFI \in OptPFIs : DoEncode(optPFI)
    \/ \E i \in 1..4, c \in 0..127 : Tamper(i, c)
    \/ \E skip \in BOOLEAN : DoDecode(skip)
    \/ ReEncode
    \/ ReDecode

Spec == Init /\ [][Next]_vars

-----------------------------------------------------------------------------
(* SpecBuild: builder calls and assignments on one Payload, which starts as *)
(* NewPayload(), as a Payload with nearly all merchant-account IDs taken,   *)
(* or as a decoded Payload; and the queries on it.                          *)

MaxCalls == 2

\* k calls of AddPrimitiveMerchantAccount("", "v") on p.
RECURSIVE AddPrimitives(_, _)
AddPrimitives(p, k) ==
    IF Len(p.MerchantAccountInfos) < 0 \/ k = 0 THEN p
    ELSE AddPrimitives(AddPrimitiveMerchantAccount(p, <<>>, <<118>>).val, k - 1)

\* k calls of AddTemplateMerchantAccount("", "g") on p.
RECURSIVE AddTemplates(_, _)
AddTemplates(p, k) ==
    IF Len(p.MerchantAccountInfos) < 0 \/ k = 0 THEN p
    ELSE AddTemplates(AddTemplateMerchantAccount(p, <<>>, <<103>>, <<>>).val, k - 1)

\* NewPayload() after 23 primitive and 25 template entries with automatic
\* IDs: 25 and 51 are the IDs left.
NearlyFull == AddTemplates(AddPrimitives(NewPayload, 23), 25)

\* The Payload Decode returns for a string with the entries 02 (primitive),
\* 26 (template with sub-objects 00 "g" and 01 "x"), "+3", 25, 51 (template
\* with sub-object 00 "g") and 27 (empty), and the transaction amount "50".
DecodedPayload ==
    Decode(WithCRC(ForeignBodyHead
                   \o Unit(Digits2(54), <<53, 48>>)
                   \o Unit(Digits2(26), Unit(Digits2(0), <<103>>) \o Unit(Digits2(1), <<120>>))
                   \o Unit(<<43, 51>>, <<118>>)
                   \o Unit(Digits2(25), <<118>>)
                   \o Unit(Digits2(51), Unit(Digits2(0), <<103>>))
                   \o Unit(Digits2(27), <<>>))).val[1]

\* The arguments of the calls: ids "", "+3", "26" / "", "05"; amounts "50",
\* "3000", "abc", "NaN"; fixed fees "10.75", "x", ""; percentages "3.00", "x";
\* languages "es", "ES".
PrimitiveIDs == {<<>>, <<43, 51>>, <<50, 54>>}

TemplateIDs == {<<>>, <<48, 53>>}

ExtraSubFields == <<DataObject(Digits2(1), <<120>>), DataObject(Digits2(2), <<121>>)>>

Amounts == {<<53, 48>>, <<51, 48, 48, 48>>, <<97, 98, 99>>, <<78, 97, 78>>}

FixedFees == {<<49, 48, 46, 55, 53>>, <<120>>, <<>>}

Percentages == {<<51, 46, 48, 48>>, <<120>>}

Languages == {<<101, 115>>, <<69, 83>>}

InitBuild ==
    /\ input = <<>>
    /\ objsIn = <<>>
    /\ wellFormed = TRUE
    /\ tlvEnc = NotRun
    /\ parsed = NotRun
    /\ decoded = NotRun
    /\ p0 = Nil
    /\ steps = 0
    /\ enc1 = NotRun
    /\ wire = <<>>
    /\ wireKind = "none"
    /\ dec1 = NotRun
    /\ enc2 = NotRun
    /\ dec2 = NotRun
    /\ \/ bp \in {NewPayload, NearlyFull} /\ origin = "new"
       \/ bp = DecodedPayload /\ origin = "decoded"
    /\ calls = 0
    /\ last = NotRun
    /\ asked = NotRun

\* A builder call that returns an error: out is its outcome, with the Payload
\* after the call as val.
Called(op, id, out) ==
    /\ calls < MaxCalls
    /\ bp' = out.val
    /\ calls' = calls + 1
    /\ last' = [op |-> op, id |-> id, before |-> bp, kind |-> out.kind]
    /\ asked' = NotRun
    /\ UNCHANGED origin
    /\ UNCHANGED tlvVars
    /\ UNCHANGED lifeVars

CallAddPrimitive(id) ==
    Called("AddPrimitiveMerchantAccount", id, AddPrimitiveMerchantAccount(bp, id, <<118>>))

CallAddTemplate(id) ==
    Called("AddTemplateMerchantAccount", id,
           AddTemplateMerchantAccount(bp, id, <<103>>, ExtraSubFields))

\* p.TransactionAmount = amount
AssignAmount(amount) ==
    Called("TransactionAmount", <<>>, Ok([bp EXCEPT !.TransactionAmount = amount]))

\* p.TipOrConvenienceIndicator = tip, the stored fee values staying
AssignTip(tip) ==
    Called("TipOrConvenienceIndicator", <<>>, Ok([bp EXCEPT !.TipOrConvenienceIndicator = tip]))

CallSetFixedConvenienceFee(amount) ==
    Called("SetFixedConvenienceFee", <<>>, Ok(SetFixedConvenienceFee(bp, amount)))

CallSetPercentageConvenienceFee(percent) ==
    Called("SetPercentageConvenienceFee", <<>>, Ok(SetPercentageConvenienceFee(bp, percent)))

CallSetPromptForTip ==
    Called("SetPromptForTip", <<>>, Ok(SetPromptForTip(bp)))

CallSetLanguageTemplate(lang, name, city) ==
    Called("SetLanguageTemplate", <<>>, Ok(SetLanguageTemplate(bp, lang, name, city)))

\* A query: its result is recorded, bp stays.
Asked(op, lang, out) ==
    /\ asked' = [op |-> op, lang |-> lang, out |-> out]
    /\ UNCHANGED <<bp, origin, calls, last>>
    /\ UNCHANGED tlvVars
    /\ UNCHANGED lifeVars

CallTotalAmount == Asked("TotalAmount", <<>>, TotalAmount(bp))

CallPreferredMerchantName(lang) ==
    Asked("PreferredMerchantName", lang, PreferredMerchantName(bp, lang))

CallPreferredMerchantCity(lang) ==
    Asked("PreferredMerchantCity", lang, PreferredMerchantCity(bp, lang))

CallHasMultipleNetworks == Asked("HasMultipleNetworks", <<>>, HasMultipleNetworks(bp))

NextBuild ==
    \/ \E id \in PrimitiveIDs : CallAddPrimitive(id)
    \/ \E id \in TemplateIDs : CallAddTemplate(id)
    \/ \E amount \in Amounts : AssignAmount(amount)
    \/ \E tip \in {TipIndicatorPromptConsumer, Digits2(4)} : AssignTip(tip)
    \/ \E amount \in FixedFees : CallSetFixedConvenienceFee(amount)
    \/ \E percent \in Percentages : CallSetPercentageConvenienceFee(percent)
    \/ CallSetPromptForTip
    \/ \E names \in {<<<<110>>, <<99>>>>, <<<<>>, <<99>>>>, <<<<110>>, <<>>>>} :
           CallSetLanguageTemplate(<<101, 115>>, names[1], names[2])
    \/ CallTotalAmount
    \/ \E lang \in Languages : CallPreferredMerchantName(lang)
    \/ \E lang \in Languages : CallPreferredMerchantCity(lang)
    \/ CallHasMultipleNetworks

SpecBuild == InitBuild /\ [][NextBuild]_vars

-----------------------------------------------------------------------------
(* helpers.go, Bharat QR: AddMerchantIdentifier and the setters of the       *)
(* fields 01, 26, 27 and 28. The Payload carries the merchant identifiers    *)
(* and the Bharat QR fields next to the fields of the base Payload, so that  *)
(* the builders of both can be called on it.                                 *)

\* "A000000524"
RuPayRIDValue == <<65, 48, 48, 48, 48, 48, 48, 53, 50, 52>>

NewPayloadBharat ==
    NewPayload @@ [MerchantIdentifiers     |-> <<>>,
                   PointOfInitiationMethod |-> <<>>,
                   UPIVPAInfo              |-> Nil,
                   UPITransactionRef       |-> Nil,
                   MerchantAadhaar         |-> Nil]

AddMerchantIdentifier(p, tagID, value) ==
    LET n == Atoi(tagID)
    IN  IF tagID = <<>> THEN [Err("emptyTagID") EXCEPT !.val = p]
        ELSE IF ~n.ok \/ n.n < 2 \/ n.n > 25 THEN [Err("invalidTagID") EXCEPT !.val = p]
        ELSE IF \E i \in 1..Len(p.MerchantIdentifiers) : p.MerchantIdentifiers[i].ID = tagID
        THEN [Err("duplicateTagID") EXCEPT !.val = p]
        ELSE Ok([p EXCEPT !.MerchantIdentifiers = Append(@, [ID |-> tagID, Value |-> value])])

SetPointOfInitiationMethod(p, method, dataType) ==
    IF method = <<>> \/ dataType = <<>> THEN [Err("emptyMethod") EXCEPT !.val = p]
    ELSE IF method # <<49>> /\ method # <<50>> /\ method # <<51>>
    THEN [Err("invalidMethod") EXCEPT !.val = p]
    ELSE IF dataType # <<49>> /\ dataType # <<50>>
    THEN [Err("invalidDataType") EXCEPT !.val = p]
    ELSE Ok([p EXCEPT !.PointOfInitiationMethod = method \o dataType])

SetUPIVPATemplate(p, ruPayRID, vpa, minimumAmount) ==
    IF vpa = <<>> THEN [Err("emptyVPA") EXCEPT !.val = p]
    ELSE Ok([p EXCEPT !.UPIVPAInfo = <<[RuPayRID      |-> ruPayRID,
                                        VPA           |-> vpa,
                                        MinimumAmount |-> minimumAmount]>>])

\* SetUPIVPAReference storing the reference before it looks at the URL.
SetUPIVPAReferenceEager(p, transactionRef, url) ==
    IF transactionRef = <<>> THEN [Err("emptyReference") EXCEPT !.val = p]
    ELSE IF Len(transactionRef) < 4 \/ Len(transactionRef) > 35
    THEN [Err("referenceLength") EXCEPT !.val = p]
    ELSE LET q == [p EXCEPT !.UPITransactionRef = <<[RuPayRID       |-> RuPayRIDValue,
                                                     TransactionRef |-> transactionRef,
                                                     ReferenceURL   |-> url]>>]
         IN  IF url # <<>> /\ Len(url) > 26 THEN [Err("urlLength") EXCEPT !.val = q]
             ELSE Ok(q)

SetUPIVPAReference(p, transactionRef, url) ==
    IF transactionRef = <<>> THEN [Err("emptyReference") EXCEPT !.val = p]
    ELSE IF Len(transactionRef) < 4 \/ Len(transactionRef) > 35
    THEN [Err("referenceLength") EXCEPT !.val = p]
    ELSE IF url # <<>> /\ Len(url) > 26 THEN [Err("urlLength") EXCEPT !.val = p]
    ELSE Ok([p EXCEPT !.UPITransactionRef = <<[RuPayRID       |-> RuPayRIDValue,
                                               TransactionRef |-> transactionRef,
                                               ReferenceURL   |-> url]>>])

\* The loop ranges over runes; a byte of 128 or more is part of a rune above
\* '9' (or of U+FFFD), so every byte has to be an ASCII digit.
SetAadhaarNumber(p, aadhaarNum) ==
    IF aadhaarNum = <<>> THEN [Err("emptyAadhaar") EXCEPT !.val = p]
    ELSE IF Len(aadhaarNum) # 12 THEN [Err("aadhaarLength") EXCEPT !.val = p]
    ELSE IF \E i \in 1..Len(aadhaarNum) : aadhaarNum[i] < 48 \/ aadhaarNum[i] > 57
    THEN [Err("aadhaarDigits") EXCEPT !.val = p]
    ELSE Ok([p EXCEPT !.MerchantAadhaar = <<[RuPayRID      |-> RuPayRIDValue,
                                             AadhaarNumber |-> aadhaarNum]>>])

-----------------------------------------------------------------------------
(* SpecBharat: builder calls on one Payload that starts as NewPayload().     *)

\* n bytes, the digits 1, 2, ..., 9, 0, 1, ...
RECURSIVE DigitString(_)
DigitString(n) == IF n = 0 THEN <<>> ELSE Append(DigitString(n - 1), 48 + (n % 10))

\* Tag IDs "", "03", "+3", "3", "01", "26", "x1", "25".
TagIDs ==
    {<<>>, Digits2(3), <<43, 51>>, <<51>>, Digits2(1), Digits2(26), <<120, 49>>, Digits2(25)}

\* Transaction references of 0, 3, 4, 35 and 36 bytes; URLs of 0, 26 and 27.
TransactionRefs == {DigitString(n) : n \in {0, 3, 4, 35, 36}}

ReferenceURLs == {DigitString(n) : n \in {0, 26, 27}}

\* Aadhaar numbers: "", 11, 12 and 13 digits, 11 digits and "x", 10 digits
\* and the two bytes of U+00E9.
AadhaarNumbers ==
    {DigitString(n) : n \in {0, 11, 12, 13}}
        \cup {DigitString(11) \o <<120>>, DigitString(10) \o <<195, 169>>}

InitBharat ==
    /\ input = <<>>
    /\ objsIn = <<>>
    /\ wellFormed = TRUE
    /\ tlvEnc = NotRun
    /\ parsed = NotRun
    /\ decoded = NotRun
    /\ p0 = Nil
    /\ steps = 0
    /\ enc1 = NotRun
    /\ wire = <<>>
    /\ wireKind = "none"
    /\ dec1 = NotRun
    /\ enc2 = NotRun
    /\ dec2 = NotRun
    /\ bp = NewPayloadBharat
    /\ origin = "new"
    /\ calls = 0
    /\ last = NotRun
    /\ asked = NotRun

CallAddMerchantIdentifier(tagID) ==
    Called("AddMerchantIdentifier", <<tagID>>, AddMerchantIdentifier(bp, tagID, <<118>>))

CallSetPointOfInitiationMethod(method, dataType) ==
    Called("SetPointOfInitiationMethod", <<method, dataType>>,
           SetPointOfInitiationMethod(bp, method, dataType))

CallSetUPIVPATemplate(vpa, minimumAmount) ==
    Called("SetUPIVPATemplate", <<vpa, minimumAmount>>,
           SetUPIVPATemplate(bp, RuPayRIDValue, vpa, minimumAmount))

CallSetUPIVPAReference(transactionRef, url) ==
    Called("SetUPIVPAReference", <<transactionRef, url>>,
           SetUPIVPAReference(bp, transactionRef, url))

CallSetAadhaarNumber(aadhaarNum) ==
    Called("SetAadhaarNumber", <<aadhaarNum>>, SetAadhaarNumber(bp, aadhaarNum))

NextBharat ==
    \/ \E tagID \in TagIDs : CallAddMerchantIdentifier(tagID)
    \/ \E method \in {<<>>, <<49>>, <<51>>, <<52>>}, dataType \in {<<>>, <<50>>, <<51>>} :
           CallSetPointOfInitiationMethod(method, dataType)
    \/ \E vpa \in {<<>>, <<109, 64, 98>>}, minimumAmount \in {<<>>, <<49, 48>>} :
           CallSetUPIVPATemplate(vpa, minimumAmount)
    \/ \E transactionRef \in TransactionRefs, url \in ReferenceURLs :
           CallSetUPIVPAReference(transactionRef, url)
    \/ \E aadhaarNum \in AadhaarNumbers : CallSetAadhaarNumber(aadhaarNum)
    \/ \E id \in PrimitiveIDs : CallAddPrimitive(id)
    \/ \E id \in TemplateIDs : CallAddTemplate(id)

SpecBharat == InitBharat /\ [][NextBharat]_vars

-----------------------------------------------------------------------------
(* Claims on Spec *)

\* The Payload of the decode step.
Decoded == dec1.out.val[1]

\* The last four characters of a string.
Last4(s) == Slice(s, Len(s) - 4, Len(s))

\* The top-level objects of a string, as (ID, Value) pairs.
TopObjects(s) == AsDataObjects(parseTLV(s).val)

\* The sub-objects of the last top-level object with this ID, if any.
SubObjects(objs, id) ==
    LET hits == SelectSeq(objs, LAMBDA o : o.ID = id)
    IN  IF hits = <<>> THEN <<>> ELSE AsDataObjects(parseTLV(hits[Len(hits)].Value).val)

IDs(objs) == [i \in 1..Len(objs) |-> objs[i].ID]

\* C1: for every Payload P that passes the validator, Decode(Encode(P))
\* succeeds with a Payload whose merchant entries, category code, currency,
\* amount, country, name, city, tip indicator, fixed and percentage fee,
\* additional data, language template and unreserved templates equal P's, and
\* whose CRC is the checksum at the end of its own re-serialization.
C1_RoundTrip ==
    (/\ enc1 # NotRun /\ enc1.opt = <<>> /\ enc1.out.kind = "ok"
     /\ wireKind = "encoded" /\ dec1 # NotRun /\ ~dec1.skip)
    => /\ dec1.out.kind = "ok"
       /\ \A f \in {"MerchantAccountInfos", "MerchantCategoryCode", "TransactionCurrency",
                    "TransactionAmount", "CountryCode", "MerchantName", "MerchantCity",
                    "TipOrConvenienceIndicator", "ValueConvenienceFeeFixed",
                    "ValueConvenienceFeePercent", "AdditionalData", "LanguageTemplate",
                    "UnreservedTemplates"} : Decoded[f] = p0[1][f]
       /\ enc2 # NotRun => enc2.kind = "ok" /\ Decoded.CRC = Last4(enc2.val)

C6_FreshEncodeDecodes ==
    (wireKind = "encoded" /\ dec1 # NotRun /\ ~dec1.skip)
    => dec1.out.kind = "ok" /\ dec1.out.val # Nil

\* The names validatePayload's error may carry for this Payload: the required
\* parts that are missing.
MissingParts(ptr) ==
    IF ptr = Nil THEN {"nil payload"}
    ELSE {RequiredNames[i] : i \in {j \in 1..Len(RequiredNames) : ptr[1][RequiredNames[j]] = <<>>}}
         \cup (IF ptr[1].MerchantAccountInfos = <<>>
               THEN {"at least one MerchantAccountInfo is required"} ELSE {})

\* C7: Encode returns ErrMissingRequired naming a missing part, and the empty
\* string, when the Payload is nil, has no merchant-account entry or an empty
\* category code, currency, country, name or city; when nothing is missing and
\* the tip indicator is valid, validation passes.
C7_Validator ==
    enc1 # NotRun
    => IF MissingParts(p0) # {}
       THEN /\ enc1.out.kind = "error" /\ enc1.out.err = "ErrMissingRequired"
            /\ enc1.out.name \in MissingParts(p0)
            /\ enc1.out.val = <<>>
       ELSE p0[1].TipOrConvenienceIndicator \in {<<>>, Digits2(1), Digits2(2), Digits2(3)}
            => /\ validatePayload(p0).kind = "ok"
               /\ enc1.out.err \notin {"ErrMissingRequired", "invalidTipOrConvenienceIndicator"}

C7_Witness ==
    /\ enc1 # NotRun /\ p0 # Nil
    /\ p0[1].MerchantCity = <<>>
    /\ enc1.out.err = "ErrMissingRequired" /\ enc1.out.name = "MerchantCity"

\* A top-level value written as it is that exceeds 99 bytes.
OverLongTopLevel(p) ==
    \/ \E f \in {"MerchantCategoryCode", "TransactionCurrency", "TransactionAmount",
                 "CountryCode", "MerchantName", "MerchantCity", "PostalCode"} :
           Len(p[f]) > MaxValueLen
    \/ \E i \in 1..Len(p.RFUFields) : Len(p.RFUFields[i].Value) > MaxValueLen

\* A nested aggregate that exceeds 99 bytes.
OverLongNested(p) ==
    \/ \E i \in 1..Len(p.MerchantAccountInfos) :
           LET m == p.MerchantAccountInfos[i]
           IN  Len(m.Value) > MaxValueLen
               \/ Len(Concat([j \in 1..Len(m.SubFields) |->
                      m.SubFields[j].ID \o Digits2(0) \o m.SubFields[j].Value])) > MaxValueLen
    \/ /\ p.AdditionalData # Nil
       /\ \E n \in 1..9 : Len(p.AdditionalData[1][ADFNames[n]]) + 4 > MaxValueLen

\* C8: for a validator-accepted Payload with a value to be serialized of more
\* than 99 bytes, Encode returns an error and the empty string.
C8_OverLongIsError ==
    (/\ enc1 # NotRun /\ validatePayload(p0).kind = "ok"
     /\ OverLongTopLevel(p0[1]) \/ OverLongNested(p0[1]))
    => enc1.out.kind = "error" /\ enc1.out.val = <<>>

\* The IDs the claim counts as recognized: at top level 00, 02-51, 52-64 and
\* 80-99; in the Additional Data Field 01-09; in the Language Template 00-02.
TopRecognized(id) ==
    LET a == Atoi(id) IN a.ok /\ (a.n = 0 \/ (a.n >= 2 /\ a.n <= 64) \/ (a.n >= 80 /\ a.n <= 99))

Unknown(objs) == SelectSeq(objs, LAMBDA o : ~TopRecognized(o.ID))

UnknownADF(objs) ==
    SelectSeq(SubObjects(objs, IDAdditionalDataFieldTemplate),
              LAMBDA o : \A n \in 1..9 : o.ID # Digits2(n))

UnknownLT(objs) ==
    SelectSeq(SubObjects(objs, IDMerchantInfoLanguageTemplate),
              LAMBDA o : o.ID \notin {LangPreference, LangMerchantName, LangMerchantCity})

\* C9: Decode keeps every object with an unrecognized ID (top-level, in the
\* Additional Data Field, in the Language Template; empty values included) as
\* an (ID, Value) pair in the original order, and Encode of the decoded
\* Payload writes each of them again with its original bytes.
C9_PreserveUnknown ==
    (dec1 # NotRun /\ dec1.out.kind = "ok")
    => LET given == TopObjects(wire)
       IN  /\ Decoded.RFUFields = Unknown(given)
           /\ Decoded.AdditionalData # Nil
              => Decoded.AdditionalData[1].RFUFields = UnknownADF(given)
           /\ Decoded.LanguageTemplate # Nil
              => Decoded.LanguageTemplate[1].RFUFields = UnknownLT(given)
           /\ enc2 # NotRun
              => /\ enc2.kind = "ok"
                 /\ Unknown(TopObjects(enc2.val)) = Unknown(given)
                 /\ UnknownADF(TopObjects(enc2.val)) = UnknownADF(given)
                 /\ UnknownLT(TopObjects(enc2.val)) = UnknownLT(given)

\* The order of top-level IDs the claim prescribes for a Payload.
CanonicalIDs(p) ==
    LET tip == p.TipOrConvenienceIndicator
        opt(c, id) == IF c THEN <<id>> ELSE <<>>
    IN  <<Digits2(0)>> \o IDs(p.MerchantAccountInfos) \o <<Digits2(52), Digits2(53)>>
        \o opt(p.TransactionAmount # <<>>, Digits2(54))
        \o opt(tip # <<>>, Digits2(55))
        \o opt(tip = Digits2(2) /\ p.ValueConvenienceFeeFixed # <<>>, Digits2(56))
        \o opt(tip = Digits2(3) /\ p.ValueConvenienceFeePercent # <<>>, Digits2(57))
        \o <<Digits2(58), Digits2(59), Digits2(60)>>
        \o opt(p.PostalCode # <<>>, Digits2(61))
        \o opt(p.AdditionalData # Nil, Digits2(62))
        \o opt(p.LanguageTemplate # Nil, Digits2(64))
        \o IDs(p.UnreservedTemplates) \o IDs(p.RFUFields) \o <<Digits2(63)>>

\* C10: a string returned by Encode starts with object 00, ends with object
\* 63 holding 4 characters, and has between them the merchant-account
\* entries, 52, 53, 54, 55 with its fee value, 58, 59, 60, 61, 62, 64, the
\* unreserved templates and the RFU fields, the optional ones when present.
C10_CanonicalOrder ==
    (enc1 # NotRun /\ enc1.out.kind = "ok")
    => LET objs == TopObjects(enc1.out.val)
       IN  /\ parseTLV(enc1.out.val).kind = "ok"
           /\ IDs(objs) = CanonicalIDs(p0[1])
           /\ Len(objs[Len(objs)].Value) = 4

C10_Witness ==
    /\ enc1 # NotRun /\ enc1.out.kind = "ok"
    /\ p0 = <<FullPayload>>
    /\ Len(TopObjects(enc1.out.val)) = 18

\* The top-level objects of raw holding a nested TLV sequence that has a
\* structure fault.
NestedFaulty(raw) ==
    SelectSeq(TopObjects(raw),
              LAMBDA o : /\ Len(o.ID) = 2 /\ IsDigit(o.ID[1]) /\ IsDigit(o.ID[2])
                         /\ LET n == 10 * (o.ID[1] - 48) + (o.ID[2] - 48)
                            IN  (n >= 26 /\ n <= 51) \/ n = 62 \/ n = 64 \/ (n >= 80 /\ n <= 99)
                         /\ StructureFault(o.Value))

\* C12: when the value of a template merchant-account entry (26-51), of the
\* Additional Data Field (62), of the Language Template (64) or of an
\* unreserved template (80-99) is not a well-formed TLV sequence, Decode
\* returns no Payload and an error that carries that field's ID and is
\* ErrInvalidTLV.
C12_NestedFailure ==
    (/\ dec1 # NotRun
     /\ dec1.skip \/ (HasCRCField(wire) /\ CRCMatches(wire))
     /\ parseTLV(wire).kind = "ok"
     /\ NestedFaulty(wire) # <<>>)
    => /\ dec1.out.kind = "error"
       /\ dec1.out.val = Nil
       /\ dec1.out.err = "ErrInvalidTLV"
       /\ dec1.out.id = NestedFaulty(wire)[1].ID

\* The values validatePayload accepts as tip indicator.
ValidTipIndicators ==
    {<<>>, TipIndicatorPromptConsumer, TipIndicatorFixedConvenienceFee, TipIndicatorPercentageFee}

\* C18: Encode passes validation only with a tip indicator that is empty,
\* "01", "02" or "03"; with any other indicator it returns an error and the
\* empty string, all required fields being present or not.
C18_TipIndicator ==
    (enc1 # NotRun /\ p0 # Nil) =>
        LET valid == p0[1].TipOrConvenienceIndicator \in ValidTipIndicators
        IN  /\ ~valid => enc1.out.kind = "error" /\ enc1.out.val = <<>>
            /\ (~valid /\ MissingParts(p0) = {}) =>
                   enc1.out.err = "invalidTipOrConvenienceIndicator"
            /\ enc1.out.err = "invalidTipOrConvenienceIndicator" => ~valid

\* A Payload with every required part and the indicator "04" is refused.
C18_Witness ==
    /\ enc1 # NotRun /\ p0 # Nil
    /\ MissingParts(p0) = {}
    /\ p0[1].TipOrConvenienceIndicator = Digits2(4)
    /\ enc1.out.kind = "error" /\ enc1.out.val = <<>>
    /\ enc1.out.err = "invalidTipOrConvenienceIndicator"

\* CRC-16/CCITT-FALSE as a shift register of 16 bits, fed one message bit
\* at a time, most significant bit of each byte first: the register starts
\* as sixteen ones; a step shifts it left by one and adds the polynomial
\* x^16 + x^12 + x^5 + 1 (0x1021) when the bit shifted out differs from the
\* message bit; the result is the register, not reflected, not inverted.
RECURSIVE XorBits(_, _)
XorBits(a, b) ==
    IF a = 0 /\ b = 0 THEN 0
    ELSE (((a % 2) + (b % 2)) % 2) + 2 * XorBits(a \div 2, b \div 2)

MessageBit(data, k) == (data[((k - 1) \div 8) + 1] \div 2^(7 - ((k - 1) % 8))) % 2

RegisterStep(reg, bit) ==
    LET shifted == (reg * 2) % 65536
    IN  IF reg \div 32768 # bit THEN XorBits(shifted, 4129) ELSE shifted

\* The register after the message bits lo..hi; the range is split in halves.
RECURSIVE RegisterAfter(_, _, _, _)
RegisterAfter(reg, data, lo, hi) ==
    IF reg < 0 \/ lo > hi THEN reg
    ELSE IF lo = hi THEN RegisterStep(reg, MessageBit(data, lo))
    ELSE LET mid == (lo + hi) \div 2
         IN  RegisterAfter(RegisterAfter(reg, data, lo, mid), data, mid + 1, hi)

CRC16CCITTFalse(data) == RegisterAfter(65535, data, 1, 8 * Len(data))

\* The value a string of hexadecimal digits 0-9A-F denotes, -1 for any other
\* string.
RECURSIVE HexValue(_)
HexValue(str) ==
    IF str = <<>> THEN 0
    ELSE LET c == str[Len(str)]
             d == IF c >= 48 /\ c <= 57 THEN c - 48
                  ELSE IF c >= 65 /\ c <= 70 THEN c - 55 ELSE 0 - 1
             rest == HexValue(SubSeq(str, 1, Len(str) - 1))
         IN  IF d < 0 \/ rest < 0 THEN 0 - 1 ELSE 16 * rest + d

\* crcString gives four characters of 0-9A-F that denote v, for every uint16.
CRCStringIsHex ==
    \A v \in 0..65535 : Len(crcString(v)) = 4 /\ HexValue(crcString(v)) = v

\* crc16CCITT on the empty sequence, on every single byte, on "123456789"
\* (check value 0x29B1) and on the data part of Scenario A.
CRCOnVectors ==
    /\ crc16CCITT(<<>>) = 65535
    /\ \A b \in 0..255 : crc16CCITT(<<b>>) = CRC16CCITTFalse(<<b>>)
    /\ \A b \in {0, 1, 128, 255}, c \in {0, 49, 255} :
           crc16CCITT(<<b, c>>) = CRC16CCITTFalse(<<b, c>>)
    /\ crc16CCITT(<<49, 50, 51, 52, 53, 54, 55, 56, 57>>) = 10673
    /\ crcString(crc16CCITT(SubSeq(ScenarioA, 1, Len(ScenarioA) - 4))) = Last4(ScenarioA)

\* C19: crc16CCITT computes CRC-16/CCITT-FALSE and crcString writes a uint16
\* as four characters of 0-9A-F: on every string of another encoder the
\* checksum the code computes is that of the shift register above, strict
\* decoding of such a string never reports a CRC mismatch, and Scenario A
\* decodes to name "ABC Hammers", city "New York", currency "840" and one
\* primitive merchant-account entry with value "4000123456789012".
C19_CRCAlgorithm ==
    /\ CRCStringIsHex
    /\ CRCOnVectors
    /\ wireKind = "foreign" =>
           LET data == SubSeq(wire, 1, Len(wire) - 4)
           IN  /\ crc16CCITT(data) = CRC16CCITTFalse(data)
               /\ HexValue(Last4(wire)) = crc16CCITT(data)
               /\ dec1 # NotRun => dec1.out.err # "ErrCRCMismatch"
    /\ (wire = ScenarioA /\ dec1 # NotRun) =>
           /\ dec1.out.kind = "ok"
           /\ Decoded.MerchantName = SubSeq(ScenarioA, 52, 62)
           /\ Decoded.MerchantCity = SubSeq(ScenarioA, 67, 74)
           /\ Decoded.TransactionCurrency = <<56, 52, 48>>
           /\ Len(Decoded.MerchantAccountInfos) = 1
           /\ Decoded.MerchantAccountInfos[1] =
                  MerchantAccountInfo(Digits2(2), SubSeq(ScenarioA, 11, 26), <<>>)

\* Scenario A has been decoded with the CRC check on.
C19_Witness ==
    /\ wire = ScenarioA
    /\ dec1 # NotRun /\ ~dec1.skip
    /\ dec1.out.kind = "ok"
    /\ Decoded.MerchantName = <<65, 66, 67, 32, 72, 97, 109, 109, 101, 114, 115>>
    /\ Decoded.MerchantCity = <<78, 101, 119, 32, 89, 111, 114, 107>>

\* A Payload with its CRC field left out of the comparison.
WithoutCRC(p) == [p EXCEPT !.CRC = <<>>]

\* C21: when Decode of a string succeeds with D and Encode(D) succeeds,
\* Decode of the encoded string succeeds with a Payload equal to D in every
\* field but CRC, and its CRC is not empty.
C21_DecodeEncodeDecode ==
    (dec1 # NotRun /\ ~dec1.skip /\ dec1.out.kind = "ok" /\ enc2 # NotRun /\ enc2.kind = "ok"
     /\ dec2 # NotRun)
    => /\ dec2.kind = "ok"
       /\ WithoutCRC(dec2.val[1]) = WithoutCRC(Decoded)
       /\ dec2.val[1].CRC # <<>>

\* C22: DecodeWithOptions with SkipCRCValidation never returns the
\* checksum-mismatch error and needs no CRC field; on a string Encode
\* returned, with its last four characters as they are or changed, it
\* returns a Payload equal to Decode of the unchanged string in every field
\* but CRC.
C22_SkipCRC ==
    (dec1 # NotRun /\ dec1.skip) =>
        /\ dec1.out.err # "ErrCRCMismatch"
        /\ wireKind = "nocrc" => dec1.out.kind = "ok" /\ Decoded.CRC = <<>>
        /\ wireKind \in {"encoded", "tampered"} =>
               LET strict == Decode(enc1.out.val)
               IN  /\ dec1.out.kind = "ok"
                   /\ strict.kind = "ok"
                   /\ WithoutCRC(Decoded) = WithoutCRC(strict.val[1])

\* C23: a string Encode returns without a format-indicator override starts
\* with the object 00 of value "01", whatever PayloadFormatIndicator the
\* Payload holds; with a non-empty override the value is the override.
C23_FormatIndicator ==
    /\ (enc1 # NotRun /\ enc1.out.kind = "ok") =>
           TopObjects(enc1.out.val)[1] =
               DataObject(IDPayloadFormatIndicator,
                          IF enc1.opt = <<>> THEN Digits2(1) ELSE enc1.opt)
    /\ (enc2 # NotRun /\ enc2.kind = "ok") =>
           TopObjects(enc2.val)[1] = DataObject(IDPayloadFormatIndicator, Digits2(1))

\* The claim on the fee objects of the string out that Encode returned for
\* the Payload p.
FeeEmission(p, out) ==
    LET ids == IDs(TopObjects(out))
        has(id) == \E i \in 1..Len(ids) : ids[i] = id
        tip == p.TipOrConvenienceIndicator
    IN  /\ has(IDValueConvenienceFeeFixed) <=>
               (tip = TipIndicatorFixedConvenienceFee /\ p.ValueConvenienceFeeFixed # <<>>)
        /\ has(IDValueConvenienceFeePercent) <=>
               (tip = TipIndicatorPercentageFee /\ p.ValueConvenienceFeePercent # <<>>)
        /\ \A i \in 1..Len(ids) :
               ids[i] \in {IDValueConvenienceFeeFixed, IDValueConvenienceFeePercent}
               => i > 1 /\ ids[i - 1] = IDTipOrConvenienceIndicator
        /\ ~(has(IDValueConvenienceFeeFixed) /\ has(IDValueConvenienceFeePercent))

C24_WitnessFixed ==
    /\ enc1 # NotRun /\ enc1.out.kind = "ok"
    /\ \E i \in 2..Len(TopObjects(enc1.out.val)) :
           /\ TopObjects(enc1.out.val)[i].ID = IDValueConvenienceFeeFixed
           /\ TopObjects(enc1.out.val)[i - 1] =
                  DataObject(IDTipOrConvenienceIndicator, TipIndicatorFixedConvenienceFee)

\* The dispatch the claim gives an ID: by its two decimal digits, and "rfu"
\* for every ID that is not two decimal digits.
Dispatch(id) ==
    IF ~(Len(id) = 2 /\ IsDigit(id[1]) /\ IsDigit(id[2])) THEN "rfu"
    ELSE LET n == DigitsValue(id, 0)
         IN  IF n = 0 THEN "format"
             ELSE IF n >= 2 /\ n <= 25 THEN "primitive"
             ELSE IF n >= 26 /\ n <= 51 THEN "template"
             ELSE IF n = 63 THEN "crc"
             ELSE IF n >= 52 /\ n <= 64 THEN "named"
             ELSE IF n >= 80 /\ n <= 99 THEN "unreserved"
             ELSE "rfu"

\* The Payload field of a named ID that holds its value as it is.
NamedField(id) ==
    CASE id = IDMerchantCategoryCode -> "MerchantCategoryCode"
      [] id = IDTransactionCurrency -> "TransactionCurrency"
      [] id = IDTransactionAmount -> "TransactionAmount"
      [] id = IDTipOrConvenienceIndicator -> "TipOrConvenienceIndicator"
      [] id = IDValueConvenienceFeeFixed -> "ValueConvenienceFeeFixed"
      [] id = IDValueConvenienceFeePercent -> "ValueConvenienceFeePercent"
      [] id = IDCountryCode -> "CountryCode"
      [] id = IDMerchantName -> "MerchantName"
      [] id = IDMerchantCity -> "MerchantCity"
      [] id = IDPostalCode -> "PostalCode"
      [] OTHER -> "nested"

\* C26: the top-level objects of a decoded string are dispatched by ID, each
\* in exactly one way: 00 is the format indicator, 02..25 a primitive and
\* 26..51 a template merchant-account entry, 52..62 and 64 the field of that
\* ID, 63 the CRC, 80..99 an unreserved template, and every other ID (01,
\* 65..79, IDs that are not two decimal digits such as "+5" or " 7") goes to
\* the top-level RFU list.
C26_Dispatch ==
    (dec1 # NotRun /\ dec1.out.kind = "ok") =>
        LET objs == TopObjects(wire)
            isRFU(o) == Dispatch(o.ID) = "rfu"
            isMAI(o) == Dispatch(o.ID) \in {"primitive", "template"}
            isUT(o)  == Dispatch(o.ID) = "unreserved"
            mais     == SelectSeq(objs, isMAI)
        IN  /\ Decoded.RFUFields = SelectSeq(objs, isRFU)
            /\ IDs(Decoded.MerchantAccountInfos) = IDs(mais)
            /\ \A i \in 1..Len(mais) :
                   IF Dispatch(mais[i].ID) = "primitive"
                   THEN Decoded.MerchantAccountInfos[i] =
                            MerchantAccountInfo(mais[i].ID, mais[i].Value, <<>>)
                   ELSE Decoded.MerchantAccountInfos[i].Value = <<>>
            /\ IDs(Decoded.UnreservedTemplates) = IDs(SelectSeq(objs, isUT))
            /\ \A i \in 1..Len(objs) :
                   LET id == objs[i].ID
                       lastOfID == \A j \in (i + 1)..Len(objs) : objs[j].ID # id
                   IN  lastOfID =>
                           /\ Dispatch(id) = "format" =>
                                  Decoded.PayloadFormatIndicator = objs[i].Value
                           /\ Dispatch(id) = "crc" => Decoded.CRC = ToUpper(objs[i].Value)
                           /\ (Dispatch(id) = "named" /\ NamedField(id) # "nested") =>
                                  Decoded[NamedField(id)] = objs[i].Value
                           /\ id = IDAdditionalDataFieldTemplate => Decoded.AdditionalData # Nil
                           /\ id = IDMerchantInfoLanguageTemplate => Decoded.LanguageTemplate # Nil

\* The number of bytes of a string up to and including the 4-byte header of
\* its k-th top-level object.
RECURSIVE HeaderEnd(_, _)
HeaderEnd(objs, k) ==
    IF k = 1 THEN 4 ELSE HeaderEnd(objs, k - 1) + Len(objs[k - 1].Value) + 4

\* C27: when Decode with the CRC check on returns a Payload, the top-level
\* object 63 is the last top-level object of the string, and the Payload's
\* CRC is, letter case aside, the CRC-16 of the bytes up to and including
\* that object's header.
C27_CRCIntegrity ==
    (dec1 # NotRun /\ ~dec1.skip /\ dec1.out.kind = "ok") =>
        LET objs == TopObjects(wire)
            crcs == {i \in 1..Len(objs) : objs[i].ID = IDCRC}
        IN  /\ crcs = {Len(objs)}
            /\ \A i \in crcs :
                   Decoded.CRC = crcString(crc16CCITT(SubSeq(wire, 1, HeaderEnd(objs, i))))

\* The string ends with "6304" and the checksum of all bytes before the
\* last four.
FreshCRC(str) ==
    /\ Len(str) >= 8
    /\ SubSeq(str, Len(str) - 7, Len(str) - 4) = CRCHeader
    /\ Last4(str) = crcString(crc16CCITT(SubSeq(str, 1, Len(str) - 4)))

-----------------------------------------------------------------------------
(* Claims on SpecBuild *)

\* str is a decimal number: an optional sign, then digits with at most one
\* decimal point and at least one digit.
IsDecimalNumber(str) ==
    LET body == IF Len(str) > 0 /\ str[1] \in {43, 45} THEN Tail(str) ELSE str
    IN  /\ \E i \in 1..Len(body) : IsDigit(body[i])
        /\ \A i \in 1..Len(body) : IsDigit(body[i]) \/ body[i] = 46
        /\ Cardinality({i \in 1..Len(body) : body[i] = 46}) <= 1

\* The query just answered is op.
JustAsked(op) == asked # NotRun /\ asked.op = op

\* C14: TotalAmount returns an error when the base amount is absent or not a
\* number; with indicator "02" it returns base + fixed fee (an error when the
\* fee is present and not a number, the base when it is absent); with "03"
\* base + base * pct / 100; with any other indicator the base, whatever fees
\* are stored.  50 with fixed fee 10.75 gives 60.75; 3000 with 3.00 per cent
\* gives 3090.
C14_TotalAmount ==
    JustAsked("TotalAmount") =>
        LET amount == bp.TransactionAmount
            tip    == bp.TipOrConvenienceIndicator
            fixed  == bp.ValueConvenienceFeeFixed
            pct    == bp.ValueConvenienceFeePercent
            base   == ParseFloat(amount).val
            out    == asked.out
            gives(x) == out.kind = "ok" /\ out.val = x
        IN  /\ ~IsDecimalNumber(amount) => out.kind = "error"
            /\ IsDecimalNumber(amount) =>
                   IF tip = TipIndicatorFixedConvenienceFee
                   THEN IF fixed = <<>> THEN gives(base)
                        ELSE IF ~IsDecimalNumber(fixed) THEN out.kind = "error"
                        ELSE gives(FAdd(base, ParseFloat(fixed).val))
                   ELSE IF tip = TipIndicatorPercentageFee
                   THEN IsDecimalNumber(pct) =>
                            gives(FAdd(base, FDiv100(FMul(base, ParseFloat(pct).val))))
                   ELSE gives(base)
            /\ (/\ amount = <<53, 48>>
                /\ tip = TipIndicatorFixedConvenienceFee
                /\ fixed = <<49, 48, 46, 55, 53>>) => gives(Num(6075, 2))
            /\ (/\ amount = <<51, 48, 48, 48>>
                /\ tip = TipIndicatorPercentageFee
                /\ pct = <<51, 46, 48, 48>>) => gives(Num(3090, 0))

\* The part of C14 on amounts that are decimal numbers or absent.
C14_OnDecimalAmounts ==
    (JustAsked("TotalAmount") /\ ToUpper(bp.TransactionAmount) # <<78, 65, 78>>) => C14_TotalAmount

\* C15: PreferredMerchantName(lang) returns the Language Template's name
\* when the template is present, its language tag equals lang byte for byte
\* and its name is not empty, and the default MerchantName in every other
\* case; PreferredMerchantCity does the same with the template's city and
\* the default MerchantCity, whether or not the template's name is set.
C15_Preferred ==
    LET lt == bp.LanguageTemplate
        matches == lt # Nil /\ lt[1].LanguagePreference = asked.lang
    IN  /\ JustAsked("PreferredMerchantName") =>
               asked.out = IF matches /\ lt[1].MerchantName # <<>>
                           THEN lt[1].MerchantName ELSE bp.MerchantName
        /\ JustAsked("PreferredMerchantCity") =>
               asked.out = IF matches /\ lt[1].MerchantCity # <<>>
                           THEN lt[1].MerchantCity ELSE bp.MerchantCity

\* The template's tag differs from the requested one in case only and the
\* default name, which differs from the template's, is returned.
C15_Witness ==
    /\ JustAsked("PreferredMerchantName")
    /\ bp.LanguageTemplate # Nil
    /\ bp.LanguageTemplate[1].LanguagePreference # asked.lang
    /\ ToUpper(bp.LanguageTemplate[1].LanguagePreference) = ToUpper(asked.lang)
    /\ bp.LanguageTemplate[1].MerchantName # <<>>
    /\ bp.LanguageTemplate[1].MerchantName # bp.MerchantName
    /\ asked.out = bp.MerchantName

\* The localized city is returned while the localized name is not set.
C15_WitnessCity ==
    /\ JustAsked("PreferredMerchantCity")
    /\ bp.LanguageTemplate # Nil
    /\ bp.LanguageTemplate[1].MerchantName = <<>>
    /\ asked.out = bp.LanguageTemplate[1].MerchantCity
    /\ asked.out # bp.MerchantCity

\* C16: HasMultipleNetworks is true exactly when more than one
\* merchant-account entry is stored, after builder calls of either kind and
\* for a decoded Payload: false with no entry or one, true from the second.
C16_MultipleNetworks ==
    JustAsked("HasMultipleNetworks") =>
        /\ asked.out = (Len(bp.MerchantAccountInfos) > 1)
        /\ Len(bp.MerchantAccountInfos) \in {0, 1} => asked.out = FALSE
        /\ Len(bp.MerchantAccountInfos) = 2 => asked.out = TRUE

\* Two entries added by builder calls carry the same ID and the flag is true.
C16_Witness ==
    /\ JustAsked("HasMultipleNetworks")
    /\ origin = "new"
    /\ Len(bp.MerchantAccountInfos) = 2
    /\ bp.MerchantAccountInfos[1].ID = bp.MerchantAccountInfos[2].ID
    /\ asked.out = TRUE

\* The numbers in lo..hi that no merchant-account entry of p carries as ID.
Unused(p, lo, hi) ==
    {n \in lo..hi : \A i \in 1..Len(p.MerchantAccountInfos) :
        LET a == Atoi(p.MerchantAccountInfos[i].ID) IN ~(a.ok /\ a.n = n)}

Lowest(S) == CHOOSE n \in S : \A k \in S : n <= k

\* The last call was op with an empty id.
AutoCall(op) == last # NotRun /\ last.op = op /\ last.id = <<>>

\* Every ID of p is two digits: on a Payload built from NewPayload() these
\* are the IDs assigned by calls with an empty id.
AutomaticOnly(p) ==
    \A i \in 1..Len(p.MerchantAccountInfos) :
        LET id == p.MerchantAccountInfos[i].ID
        IN  Len(id) = 2 /\ IsDigit(id[1]) /\ IsDigit(id[2])

\* C17: with an empty id AddPrimitiveMerchantAccount assigns the lowest ID
\* of 02..25 that no entry uses, and AddTemplateMerchantAccount the lowest of
\* 26..51, storing the Globally Unique ID as first sub-field (00) and the
\* extra sub-fields after it in argument order; with the range used up the
\* call returns an error and adds nothing; the IDs assigned on a new Payload
\* are pairwise distinct.
C17_AutoID ==
    LET before == IF last = NotRun THEN bp ELSE last.before
        old    == before.MerchantAccountInfos
        now    == bp.MerchantAccountInfos
        added(lo, hi, entry) ==
            LET free == Unused(before, lo, hi)
            IN  IF free = {}
                THEN last.kind = "error" /\ bp = before
                ELSE /\ last.kind = "ok"
                     /\ now = Append(old, [entry EXCEPT !.ID = Fmt02d(Lowest(free))])
                     /\ \A i \in 1..Len(old) : old[i].ID # now[Len(now)].ID
    IN  /\ AutoCall("AddPrimitiveMerchantAccount") =>
               added(2, 25, MerchantAccountInfo(<<>>, <<118>>, <<>>))
        /\ AutoCall("AddTemplateMerchantAccount") =>
               added(26, 51, MerchantAccountInfo(<<>>, <<>>,
                                 <<DataObject(Digits2(0), <<103>>)>> \o ExtraSubFields))
        /\ (origin = "new" /\ AutomaticOnly(bp)) =>
               \A i, j \in 1..Len(now) : i # j => now[i].ID # now[j].ID

\* An automatic ID passes over a number an entry carries with a sign ("+3").
C17_Witness ==
    /\ AutoCall("AddPrimitiveMerchantAccount")
    /\ last.kind = "ok"
    /\ \E i \in 1..Len(last.before.MerchantAccountInfos) :
           last.before.MerchantAccountInfos[i].ID = <<43, 51>>
    /\ bp.MerchantAccountInfos[Len(bp.MerchantAccountInfos)].ID = Digits2(4)

\* With 02..25 used up the call returns an error and the Payload is unchanged.
C17_WitnessExhausted ==
    /\ AutoCall("AddPrimitiveMerchantAccount")
    /\ last.kind = "error"
    /\ bp = last.before
    /\ Len(bp.MerchantAccountInfos) = 49

\* A template entry gets the ID 51 and the sub-fields 00, 01, 02.
C17_WitnessTemplate ==
    /\ AutoCall("AddTemplateMerchantAccount")
    /\ last.kind = "ok"
    /\ LET e == bp.MerchantAccountInfos[Len(bp.MerchantAccountInfos)]
       IN  e.ID = Digits2(51) /\ IDs(e.SubFields) = <<Digits2(0), Digits2(1), Digits2(2)>>

WithoutFees(p) ==
    [p EXCEPT !.TipOrConvenienceIndicator = <<>>,
              !.ValueConvenienceFeeFixed = <<>>,
              !.ValueConvenienceFeePercent = <<>>]

\* C25: after a call of SetFixedConvenienceFee, SetPercentageConvenienceFee
\* or SetPromptForTip, whatever came before, the indicator is "02", "03" or
\* "01" as the call says, the fixed fee is non-empty only under "02", the
\* percentage only under "03", and no other field has changed; after
\* SetPromptForTip both fee values are empty, also in the Payload decoded
\* from the encoded string.
C25_FeeSetters ==
    (last # NotRun /\ last.op \in {"SetFixedConvenienceFee", "SetPercentageConvenienceFee",
                                   "SetPromptForTip"}) =>
        LET tip   == bp.TipOrConvenienceIndicator
            fixed == bp.ValueConvenienceFeeFixed
            pct   == bp.ValueConvenienceFeePercent
        IN  /\ tip = CASE last.op = "SetFixedConvenienceFee" -> TipIndicatorFixedConvenienceFee
                       [] last.op = "SetPercentageConvenienceFee" -> TipIndicatorPercentageFee
                       [] last.op = "SetPromptForTip" -> TipIndicatorPromptConsumer
            /\ fixed # <<>> => tip = TipIndicatorFixedConvenienceFee
            /\ pct # <<>> => tip = TipIndicatorPercentageFee
            /\ WithoutFees(bp) = WithoutFees(last.before)
            /\ last.op = "SetPromptForTip" =>
                   /\ fixed = <<>> /\ pct = <<>>
                   /\ LET e == Encode(<<bp>>)
                      IN  e.kind = "ok" =>
                              LET d == Decode(e.val)
                              IN  /\ d.kind = "ok"
                                  /\ d.val[1].TipOrConvenienceIndicator = TipIndicatorPromptConsumer
                                  /\ d.val[1].ValueConvenienceFeeFixed = <<>>
                                  /\ d.val[1].ValueConvenienceFeePercent = <<>>

\* SetPromptForTip has cleared a fee value on a Payload that encodes.
C25_Witness ==
    /\ last # NotRun /\ last.op = "SetPromptForTip"
    /\ last.before.ValueConvenienceFeeFixed # <<>>
    /\ bp.ValueConvenienceFeeFixed = <<>>
    /\ Encode(<<bp>>).kind = "ok"


-----------------------------------------------------------------------------
(* Claims on SpecBharat *)

TwoDecimalDigits(id) == Len(id) = 2 /\ IsDigit(id[1]) /\ IsDigit(id[2])

StoredTagIDs(p) == {p.MerchantIdentifiers[i].ID : i \in 1..Len(p.MerchantIdentifiers)}

\* C28: every stored merchant identifier has a two-digit decimal ID in
\* 02..25, no two stored identifiers have the same ID, and a call of
\* AddMerchantIdentifier with an empty, non-decimal, out-of-range or
\* already-present ID returns an error.
C28_UniqueIdentifiers ==
    /\ \A id \in StoredTagIDs(bp) :
           TwoDecimalDigits(id) /\ Atoi(id).n >= 2 /\ Atoi(id).n <= 25
    /\ Cardinality(StoredTagIDs(bp)) = Len(bp.MerchantIdentifiers)
    /\ (last # NotRun /\ last.op = "AddMerchantIdentifier") =>
           LET tagID == last.id[1]
           IN  (\/ ~TwoDecimalDigits(tagID)
                \/ Atoi(tagID).n < 2
                \/ Atoi(tagID).n > 25
                \/ tagID \in StoredTagIDs(last.before)) => last.kind = "error"

\* The field a builder call is named for.
FieldOf(op) ==
    CASE op \in {"AddPrimitiveMerchantAccount", "AddTemplateMerchantAccount"} ->
             "MerchantAccountInfos"
      [] op = "AddMerchantIdentifier" -> "MerchantIdentifiers"
      [] op = "SetPointOfInitiationMethod" -> "PointOfInitiationMethod"
      [] op = "SetUPIVPATemplate" -> "UPIVPAInfo"
      [] op = "SetUPIVPAReference" -> "UPITransactionRef"
      [] op = "SetAadhaarNumber" -> "MerchantAadhaar"

OutsideRange(id, lo, hi) == ~Atoi(id).ok \/ Atoi(id).n < lo \/ Atoi(id).n > hi

\* The calls the claim lists as returning an error, IDs read as numbers.
ListedAsError(op, args, before) ==
    CASE op = "AddPrimitiveMerchantAccount" -> args # <<>> /\ OutsideRange(args, 2, 25)
      [] op = "AddTemplateMerchantAccount" -> args # <<>> /\ OutsideRange(args, 26, 51)
      [] op = "AddMerchantIdentifier" ->
             OutsideRange(args[1], 2, 25) \/ args[1] \in StoredTagIDs(before)
      [] op = "SetPointOfInitiationMethod" ->
             args[1] \notin {<<49>>, <<50>>, <<51>>} \/ args[2] \notin {<<49>>, <<50>>}
      [] op = "SetUPIVPATemplate" -> args[1] = <<>>
      [] op = "SetUPIVPAReference" ->
             Len(args[1]) < 4 \/ Len(args[1]) > 35 \/ Len(args[2]) > 26
      [] op = "SetAadhaarNumber" ->
             ~(Len(args[1]) = 12 /\ \A i \in 1..Len(args[1]) : IsDigit(args[1][i]))

\* C29: a builder call that returns an error leaves the Payload as it was,
\* the calls the claim lists return an error, and a call that returns nil
\* changes no field but the one it is named for.
C29_AllOrNothing ==
    last # NotRun =>
        /\ last.kind = "error" => bp = last.before
        /\ ListedAsError(last.op, last.id, last.before) => last.kind = "error"
        /\ last.kind = "ok" =>
               \A f \in DOMAIN bp \ {FieldOf(last.op)} : bp[f] = last.before[f]

\* A call has failed on a Payload an earlier call had changed.
C29_Witness ==
    /\ last # NotRun
    /\ last.kind = "error"
    /\ last.op = "SetUPIVPAReference"
    /\ Len(last.id[2]) > 26
    /\ last.before # NewPayloadBharat
    /\ bp = last.before

\* A call has succeeded on a Payload an earlier call had changed.
C29_WitnessNil ==
    /\ last # NotRun
    /\ last.kind = "ok"
    /\ last.op = "SetAadhaarNumber"
    /\ last.before # NewPayloadBharat
    /\ bp # last.before

====
